---- MODULE Spec2Model ----
(***************************************************************************)
(* Suspicious Site Reporter: the public-suffix resolver (publicsuffix.Tld), *)
(* the alert evaluators (alerts.js) and the background page                 *)
(* (background.js) as a state machine.                                      *)
(*                                                                          *)
(* A JavaScript string is a sequence of one-character strings, so that      *)
(* reversing, slicing, indexOf and split are modelled by what they do.      *)
(***************************************************************************)
EXTENDS Integers, Sequences, FiniteSets, TLC

VARIABLES
    rules,         \* the Tld instance: exactPatterns_, excludePatterns_, wildcardPatterns_
    host,          \* argument of the getTld call
    icannOnly,     \* argument of the getTld call
    tldPc,         \* "ready" before the call, "done" after it
    tldOut,        \* outcome of the call: [threw, value]
    topSitesList,  \* alerts.js topSitesList: the keys of the dictionary
    topSitesXhr,   \* the request of fetchTopSites: "idle", "pending", "done", "failed"
    chromeApi,     \* which chrome APIs exist: [history, referrerChain]
    history,       \* the browser's history: a set of visits [url, daysAgo]
    referrer,      \* what getReferrerChain returns: a sequence of entries
    calls,         \* the computeAlerts invocations in progress
    tabs,          \* the browser's tabs: tab id -> [url]
    activeTab,     \* the id of the active tab
    tabsGet,       \* the tab ids of the chrome.tabs.get requests in flight
    tabsQuery,     \* whether the chrome.tabs.query of init() is in flight
    browserAction, \* chrome.browserAction per tab: [enabled, icon, badge]
    bgAlerts,      \* Background.alerts: [defined, list]
    tabEvents,     \* the number of tab events the browser has dispatched
    evalFn,        \* the function a unit call evaluates
    evalArg,       \* the arguments of the unit call
    evalPc,        \* "ready", "waiting" (a callback is due) or "done"
    evalOut,       \* the outcome of the unit call: [state, value]
    evalLog,       \* the collaborator calls the unit call has made, in order
    parsePattern,  \* the encoded trie given to Tld.createTrie_
    parseIdx,      \* idx: the index of the next character to be parsed
    parseStack,    \* the active calls of Tld.doParseTrie_: [prefix, c, at]
    parseTrie,     \* the trie under construction: key -> ICANN flag
    parsePc,       \* "ready", "parsing", "returned" or "asserted"
    popupPc,       \* the popup: "none", "constructed", "querying" or "open"
    popupTab,      \* the current tab and what the browser answers for it
    popupFields,   \* screenshotUrl_, domContent_ and referrer_ of the Popup
    document,      \* the elements of popup.html the Popup reads and writes
    popupPending,  \* the browser calls of the popup whose callback is due
    port,          \* the 'Site info' port between popup and background
    runtimeMessages, \* chrome.runtime messages sent and not yet received
    xhrs,          \* the XMLHttpRequests created by submitReport_
    clicks         \* the number of user gestures in the popup

tldVars == <<rules, host, icannOnly, tldPc, tldOut>>

envVars == <<chromeApi, history, referrer>>

alertVars == <<topSitesList, topSitesXhr, chromeApi, history, referrer, calls>>

evalVars == <<evalFn, evalArg, evalPc, evalOut, evalLog>>

parseVars == <<parsePattern, parseIdx, parseStack, parseTrie, parsePc>>

popupVars == <<popupPc, popupTab, popupFields, document, popupPending, port,
               runtimeMessages, xhrs, clicks>>

bgVars == <<tabs, activeTab, tabsGet, tabsQuery, browserAction, bgAlerts, tabEvents>>

vars == <<rules, host, icannOnly, tldPc, tldOut,
          topSitesList, topSitesXhr, chromeApi, history, referrer, calls,
          tabs, activeTab, tabsGet, tabsQuery, browserAction, bgAlerts, tabEvents,
          evalFn, evalArg, evalPc, evalOut, evalLog,
          parsePattern, parseIdx, parseStack, parseTrie, parsePc,
          popupPc, popupTab, popupFields, document, popupPending, port,
          runtimeMessages, xhrs, clicks>>

(***************************************************************************)
(* Bounds of the model.                                                     *)
(***************************************************************************)
MaxHostLen == 5
MaxRules == 2
MaxCalls == 2
MaxEvents == 2
MaxIdnLen == 6
MaxClicks == 1
MaxPattern == 4
MaxRedirects == 3
MaxChain == 2
MaxVisits == 2
MaxLabels == 5

(***************************************************************************)
(* JavaScript string primitives.                                            *)
(***************************************************************************)
DOT == "."

\* s.split('').reverse().join('')
Reverse(s) == [i \in 1..Len(s) |-> s[Len(s) + 1 - i]]

\* s.length
Length(s) == Len(s)

\* s.charAt(i): the empty string outside the string.
CharAt(s, i) == IF i >= 0 /\ i < Len(s) THEN s[i + 1] ELSE ""

\* s.indexOf(c), 0-based, -1 when c does not occur.
IndexOf(s, c) ==
    LET hits == {i \in 0..(Len(s) - 1) : s[i + 1] = c} IN
    IF hits = {} THEN -1 ELSE CHOOSE i \in hits : \A j \in hits : i <= j

\* s.lastIndexOf(c), 0-based, -1 when c does not occur.
LastIndexOf(s, c) ==
    LET hits == {i \in 0..(Len(s) - 1) : s[i + 1] = c} IN
    IF hits = {} THEN -1 ELSE CHOOSE i \in hits : \A j \in hits : i >= j

\* s.substr(start, length) for start >= 0: clipped to the string, empty when
\* length <= 0 or start is past the end.
Substr(s, start, length) ==
    LET last == IF start + length > Len(s) THEN Len(s) ELSE start + length IN
    IF length <= 0 \/ start >= Len(s) THEN <<>> ELSE SubSeq(s, start + 1, last)

\* s.substr(start) for start >= 0.
SubstrFrom(s, start) ==
    IF start >= Len(s) THEN <<>> ELSE SubSeq(s, start + 1, Len(s))

\* s.split('.')[0]
SplitFirst(s) ==
    IF IndexOf(s, DOT) < 0 THEN s ELSE Substr(s, 0, IndexOf(s, DOT))

(***************************************************************************)
(* goog.structs.Trie<boolean>: a map from keys to flags (true = ICANN).     *)
(***************************************************************************)
\* trie.getKeyAndPrefixes(key): maps the index of the last character of every
\* trie key that is a prefix of `key` to that key's value; a value stored at
\* the root (the empty key) is reported at index 0 unless a one-character key
\* overwrites it.
getKeyAndPrefixes(trie, key) ==
    LET hit == {p \in 0..(Len(key) - 1) : Substr(key, 0, p + 1) \in DOMAIN trie}
        root == IF <<>> \in DOMAIN trie THEN {0} ELSE {}
    IN  [p \in hit \cup root |->
            IF p \in hit THEN trie[Substr(key, 0, p + 1)] ELSE trie[<<>>]]

(***************************************************************************)
(* Tld.getLongestMatch_                                                     *)
(***************************************************************************)
\* Variant: the loop keeps the first admissible match instead of the longest.
RECURSIVE getLongestMatchLoop_FirstMatch(_, _, _, _, _)
getLongestMatchLoop_FirstMatch(matches, h, icann, todo, maxLength) ==
    IF todo = {} THEN maxLength
    ELSE LET position == CHOOSE p \in todo : \A q \in todo : p <= q
             accept == /\ (position + 1 = Length(h) \/ CharAt(h, position + 1) = DOT)
                       /\ (~icann \/ matches[position] = TRUE)
                       /\ maxLength = -1
         IN  getLongestMatchLoop_FirstMatch(matches, h, icann, todo \ {position},
                                            IF accept THEN position ELSE maxLength)

\* Variant: the loop accepts a match that ends inside a label.
RECURSIVE getLongestMatchLoop_NoBoundary(_, _, _, _, _)
getLongestMatchLoop_NoBoundary(matches, h, icann, todo, maxLength) ==
    IF todo = {} THEN maxLength
    ELSE LET position == CHOOSE p \in todo : \A q \in todo : p <= q
             accept == /\ (~icann \/ matches[position] = TRUE)
                       /\ position > maxLength
         IN  getLongestMatchLoop_NoBoundary(matches, h, icann, todo \ {position},
                                            IF accept THEN position ELSE maxLength)

\* Variant: with icannOnly the loop accepts the private keys only.
RECURSIVE getLongestMatchLoop_OnlyPrivate(_, _, _, _, _)
getLongestMatchLoop_OnlyPrivate(matches, h, icann, todo, maxLength) ==
    IF todo = {} THEN maxLength
    ELSE LET position == CHOOSE p \in todo : \A q \in todo : p <= q
             accept == /\ (position + 1 = Length(h) \/ CharAt(h, position + 1) = DOT)
                       /\ (~icann \/ matches[position] = FALSE)
                       /\ position > maxLength
         IN  getLongestMatchLoop_OnlyPrivate(matches, h, icann, todo \ {position},
                                             IF accept THEN position ELSE maxLength)

\* Variant: the loop accepts private keys also when icannOnly is true.
RECURSIVE getLongestMatchLoop_IgnoreIcann(_, _, _, _, _)
getLongestMatchLoop_IgnoreIcann(matches, h, icann, todo, maxLength) ==
    IF todo = {} THEN maxLength
    ELSE LET position == CHOOSE p \in todo : \A q \in todo : p <= q
             accept == /\ (position + 1 = Length(h) \/ CharAt(h, position + 1) = DOT)
                       /\ position > maxLength
         IN  getLongestMatchLoop_IgnoreIcann(matches, h, icann, todo \ {position},
                                             IF accept THEN position ELSE maxLength)

RECURSIVE getLongestMatchLoop(_, _, _, _, _)
\* the for-in loop over the positions of `matches`, in ascending order
getLongestMatchLoop(matches, h, icann, todo, maxLength) ==
    IF todo = {} THEN maxLength
    ELSE LET position == CHOOSE p \in todo : \A q \in todo : p <= q
             accept == /\ (position + 1 = Length(h) \/ CharAt(h, position + 1) = DOT)
                       /\ (~icann \/ matches[position] = TRUE)
                       /\ position > maxLength
         IN  getLongestMatchLoop(matches, h, icann, todo \ {position},
                                 IF accept THEN position ELSE maxLength)

getLongestMatch_(trie, h, icann) ==
    LET matches == getKeyAndPrefixes(trie, h)
        maxLength == getLongestMatchLoop(matches, h, icann, DOMAIN matches, -1)
    IN  Substr(h, 0, maxLength + 1)

(***************************************************************************)
(* Tld.prototype.getTld.  The outcome is [threw |-> TRUE] when the         *)
(* goog.asserts.assert of the exclude branch fails, otherwise              *)
(* [threw |-> FALSE, value |-> the returned string].                        *)
(***************************************************************************)
Returned(v) == [threw |-> FALSE, value |-> v]
Thrown == [threw |-> TRUE, value |-> <<>>]

\* Variant: the match is returned without reversing it back.
getTldWildcard_NoReverse(r, rhost, icann, tldCandidate, excludeCandidate) ==
    LET wildcardCandidate == getLongestMatch_(r.wildcard, rhost, icann) IN
    IF /\ Length(wildcardCandidate) > 0
       /\ Length(rhost) > Length(wildcardCandidate)
       /\ Length(wildcardCandidate) # Length(excludeCandidate)
    THEN LET rest == SubstrFrom(rhost, Length(wildcardCandidate) + 1)
             extended == wildcardCandidate \o <<DOT>> \o SplitFirst(rest)
         IN  IF Length(extended) > Length(tldCandidate)
             THEN Returned(extended)
             ELSE Returned(tldCandidate)
    ELSE Returned(tldCandidate)

\* Variant: the wildcard match is extended even when it coincides with the
\* stripped exclude match.
getTldWildcard_NoExcludeCheck(r, rhost, icann, tldCandidate, excludeCandidate) ==
    LET wildcardCandidate == getLongestMatch_(r.wildcard, rhost, icann) IN
    IF /\ Length(wildcardCandidate) > 0
       /\ Length(rhost) > Length(wildcardCandidate)
    THEN LET rest == SubstrFrom(rhost, Length(wildcardCandidate) + 1)
             extended == wildcardCandidate \o <<DOT>> \o SplitFirst(rest)
         IN  IF Length(extended) > Length(tldCandidate)
             THEN Returned(Reverse(extended))
             ELSE Returned(Reverse(tldCandidate))
    ELSE Returned(Reverse(tldCandidate))

\* the wildcard branch and the final reversal (lines 79-92)
getTldWildcard(r, rhost, icann, tldCandidate, excludeCandidate) ==
    LET wildcardCandidate == getLongestMatch_(r.wildcard, rhost, icann) IN
    IF /\ Length(wildcardCandidate) > 0
       /\ Length(rhost) > Length(wildcardCandidate)
       /\ Length(wildcardCandidate) # Length(excludeCandidate)
    THEN LET rest == SubstrFrom(rhost, Length(wildcardCandidate) + 1)
             extended == wildcardCandidate \o <<DOT>> \o SplitFirst(rest)
         IN  IF Length(extended) > Length(tldCandidate)
             THEN Returned(Reverse(extended))
             ELSE Returned(Reverse(tldCandidate))
    ELSE Returned(Reverse(tldCandidate))

\* Variant: the exclude match keeps its last label.
getTld_ExcludeNotStripped(r, h, icann) ==
    LET rhost == Reverse(h)
        exactCandidate == getLongestMatch_(r.exact, rhost, icann)
        excludeMatch == getLongestMatch_(r.excluded, rhost, icann)
    IN  IF Length(excludeMatch) > 0
        THEN IF ~(IndexOf(excludeMatch, DOT) >= 0)
             THEN Thrown
             ELSE getTldWildcard(r, rhost, icann,
                      IF Length(excludeMatch) > Length(exactCandidate)
                      THEN excludeMatch ELSE exactCandidate,
                      excludeMatch)
        ELSE getTldWildcard(r, rhost, icann, exactCandidate, excludeMatch)

\* Variant: the assertion is made on the exclude match after its last label
\* was stripped.
getTld_AssertAfterStrip(r, h, icann) ==
    LET rhost == Reverse(h)
        exactCandidate == getLongestMatch_(r.exact, rhost, icann)
        excludeMatch == getLongestMatch_(r.excluded, rhost, icann)
    IN  IF Length(excludeMatch) > 0
        THEN LET excludeCandidate ==
                     Substr(excludeMatch, 0, LastIndexOf(excludeMatch, DOT))
                 tldCandidate ==
                     IF Length(excludeCandidate) > Length(exactCandidate)
                     THEN excludeCandidate ELSE exactCandidate
             IN  IF ~(IndexOf(excludeCandidate, DOT) >= 0)
                 THEN Thrown
                 ELSE getTldWildcard(r, rhost, icann, tldCandidate, excludeCandidate)
        ELSE getTldWildcard(r, rhost, icann, exactCandidate, excludeMatch)

getTld(r, h, icann) ==
    LET rhost == Reverse(h)
        exactCandidate == getLongestMatch_(r.exact, rhost, icann)
        excludeMatch == getLongestMatch_(r.excluded, rhost, icann)
    IN  IF Length(excludeMatch) > 0
        THEN IF ~(IndexOf(excludeMatch, DOT) >= 0)
             THEN Thrown
             ELSE LET excludeCandidate ==
                          Substr(excludeMatch, 0, LastIndexOf(excludeMatch, DOT))
                      tldCandidate ==
                          IF Length(excludeCandidate) > Length(exactCandidate)
                          THEN excludeCandidate ELSE exactCandidate
                  IN  getTldWildcard(r, rhost, icann, tldCandidate, excludeCandidate)
        ELSE getTldWildcard(r, rhost, icann, exactCandidate, excludeMatch)

(***************************************************************************)
(* Inputs of the resolver: host strings and rule sets.                      *)
(***************************************************************************)
Alphabet == {"a", DOT}

Strings(n) == UNION {[1..k -> Alphabet] : k \in 0..n}

Hosts == Strings(MaxHostLen)

\* Rules are reversed, dot-joined sequences of non-empty labels.
RuleKeys == { <<"a">>, <<"a", "a">>, <<"a", DOT, "a">>, <<"a", DOT, "a", "a">> }

TrieNames == {"exact", "excluded", "wildcard"}

RuleSlots == [trie : TrieNames, key : RuleKeys, icann : BOOLEAN]

RECURSIVE SlotSets(_)
SlotSets(n) ==
    IF n = 0 THEN {{}}
    ELSE LET smaller == SlotSets(n - 1)
         IN  smaller \cup {p \cup {s} : p \in smaller, s \in RuleSlots}

\* a key is stored once per trie
Consistent(S) ==
    \A s, t \in S : (s.trie = t.trie /\ s.key = t.key) => s = t

TrieOf(S, name) ==
    [k \in {s.key : s \in {t \in S : t.trie = name}} |->
        (CHOOSE s \in S : s.trie = name /\ s.key = k).icann]

RulesOf(S) ==
    [exact |-> TrieOf(S, "exact"),
     excluded |-> TrieOf(S, "excluded"),
     wildcard |-> TrieOf(S, "wildcard")]

RuleSets == {RulesOf(S) : S \in {T \in SlotSets(MaxRules) : Consistent(T)}}

\* rule sets with one rule in each of the three tries
TrieSlots(name) == {s \in RuleSlots : s.trie = name}

LayeredRuleSets ==
    { RulesOf({e, x, w}) :
        e \in TrieSlots("exact"), x \in TrieSlots("excluded"),
        w \in TrieSlots("wildcard") }

(***************************************************************************)
(* An excerpt of the public suffix list (publicsuffixpatterns), written in  *)
(* normal orientation and stored reversed, as the encoded patterns are.     *)
(***************************************************************************)
\* the characters of a string literal
Str(s) == [i \in 1..Len(s) |-> SubSeq(s, i, i)]

Rule(name, s, flag) == [trie |-> name, key |-> Reverse(Str(s)), icann |-> flag]

PslBase ==
    { Rule("exact", "com", TRUE), Rule("exact", "uk", TRUE),
      Rule("exact", "co.uk", TRUE) }

PslExtras ==
    { Rule("exact", "blogspot.com", FALSE), Rule("wildcard", "ck", TRUE),
      Rule("excluded", "www.ck", TRUE) }

PslRuleSets == {RulesOf(PslBase \cup X) : X \in SUBSET PslExtras}

PslHosts ==
    { Str("www.google.com"), Str("www.google.co.uk"), Str("foo.blogspot.com"),
      Str("www.ck"), Str("a.b.ck"), Str("localhost") }

\* the rule data of the Tld singleton used by alerts.js
TheTld == RulesOf(PslBase \cup PslExtras)

(***************************************************************************)
(* More JavaScript string primitives, used by alerts.js.                    *)
(***************************************************************************)
UpperCase == <<"A", "B", "C", "D", "E", "F", "G", "H", "I", "J", "K", "L", "M",
               "N", "O", "P", "Q", "R", "S", "T", "U", "V", "W", "X", "Y", "Z">>
LowerCase == <<"a", "b", "c", "d", "e", "f", "g", "h", "i", "j", "k", "l", "m",
               "n", "o", "p", "q", "r", "s", "t", "u", "v", "w", "x", "y", "z">>

\* s.toLowerCase()
ToLowerCase(s) ==
    [i \in 1..Len(s) |->
        IF \E j \in 1..Len(UpperCase) : UpperCase[j] = s[i]
        THEN LowerCase[CHOOSE j \in 1..Len(UpperCase) : UpperCase[j] = s[i]]
        ELSE s[i]]

\* whether sub occurs in s at 0-based index i
OccursAt(s, sub, i) ==
    /\ i >= 0
    /\ i + Len(sub) <= Len(s)
    /\ \A j \in 1..Len(sub) : s[i + j] = sub[j]

\* s.startsWith(sub)
StartsWith(s, sub) == OccursAt(s, sub, 0)

\* s.lastIndexOf(sub) for a string sub, -1 when sub does not occur
LastIndexOfSub(s, sub) ==
    LET hits == {i \in 0..Len(s) : OccursAt(s, sub, i)} IN
    IF hits = {} THEN -1 ELSE CHOOSE i \in hits : \A j \in hits : i >= j

\* s.slice(0, end): a negative end counts from the end of the string
SliceTo(s, end) ==
    LET e == IF end < 0 THEN (IF Len(s) + end < 0 THEN 0 ELSE Len(s) + end)
             ELSE (IF end > Len(s) THEN Len(s) ELSE end)
    IN  SubSeq(s, 1, e)

\* s.split('.')
RECURSIVE Split(_)
Split(s) ==
    IF IndexOf(s, DOT) < 0 THEN <<s>>
    ELSE <<Substr(s, 0, IndexOf(s, DOT))>> \o Split(SubstrFrom(s, IndexOf(s, DOT) + 1))

(***************************************************************************)
(* alerts.js                                                                *)
(***************************************************************************)
ALERT_MESSAGES ==
    [isIDN |-> "Domain uses uncommon characters",
     longSubdomains |-> "Unusually long subdomains",
     notTopSite |-> "Site not in top 5k sites",
     notVisitedBefore |-> "Haven't visited site in the last 3 months",
     manySubdomains |-> "Unusually many subdomains"]

NUM_SUSPICIOUS_SUBDOMAINS == 4

SUSPICIOUS_SUBDOMAIN_LENGTH == 22

\* the history window of visitedBeforeToday, in days before now
DAYS_YESTERDAY == 1
DAYS_THREE_MONTHS == 90

\* a URL: its scheme, host and path; NoUrl is the undefined tab.url
Url(scheme, h, path) == [scheme |-> scheme, host |-> Str(h), path |-> path]

NoUrl == [scheme |-> "undefined", host |-> <<>>, path |-> ""]

\* new URL(url).hostname: the URL parser lower-cases the host
getDomain(url) == ToLowerCase(url.host)

\* getTld of the Tld singleton; the excerpt holds no one-label excluded rule
TldOf(domain, icann) == getTld(TheTld, domain, icann).value

getDomainPartsWithoutTld(domain) ==
    LET suffix == <<DOT>> \o TldOf(domain, TRUE)
    IN  Split(SliceTo(domain, LastIndexOfSub(domain, suffix)))

\* variant: 'xn--' is looked for anywhere in the string
isIDN_AnyOccurrence(domain) ==
    \E i \in 0..Len(domain) : OccursAt(domain, Str("xn--"), i)

isIDN(domain) ==
    \/ StartsWith(domain, Str("xn--"))
    \/ \E i \in 0..Len(domain) : OccursAt(domain, Str(".xn--"), i)

\* topSitesList[etldPlusOne.toLowerCase()]: truthy iff the key is present
isTopSite(domain, topSites) ==
    LET suffix == <<DOT>> \o TldOf(domain, TRUE)
        domainPartsWithoutTld == getDomainPartsWithoutTld(domain)
        etldPlusOne == domainPartsWithoutTld[Len(domainPartsWithoutTld)] \o suffix
    IN  ToLowerCase(etldPlusOne) \in topSites

hasManySubdomains(domain) ==
    Len(getDomainPartsWithoutTld(domain)) >= NUM_SUSPICIOUS_SUBDOMAINS

hasLongSubdomains(domain) ==
    LET domainPartsWithoutTld == getDomainPartsWithoutTld(domain) IN
    \E i \in 1..Len(domainPartsWithoutTld) :
        Len(domainPartsWithoutTld[i]) >= SUSPICIOUS_SUBDOMAIN_LENGTH

\* chrome.history.search({text: '', startTime, endTime, maxResults: 0}): the
\* pages visited between startTime and endTime
HistorySearch(h, startDaysAgo, endDaysAgo) ==
    {v.url : v \in {w \in h : w.daysAgo <= startDaysAgo /\ w.daysAgo >= endDaysAgo}}

\* a promise and its resolve function: only the first resolution counts
Pending(v) == [state |-> "pending", value |-> v]

Rejected(v) == [state |-> "rejected", value |-> v]

Resolve(p, v) ==
    IF p.state = "pending" THEN [state |-> "fulfilled", value |-> v] ELSE p

\* the callback of chrome.history.search in visitedBeforeToday
\* variant: the last call of resolve decides the value
visitedBeforeTodayCallback_LastResolveWins(p, pages, domain) ==
    [state |-> "fulfilled", value |-> \E page \in pages : getDomain(page) = domain]

visitedBeforeTodayCallback(p, pages, domain) ==
    LET first == IF Cardinality(pages) = 0 THEN Resolve(p, TRUE) ELSE p
    IN  Resolve(first, \E page \in pages : getDomain(page) = domain)

\* newAlerts after `newAlerts.push(message)` guarded by cond
PushIf(cond, message) == IF cond THEN <<message>> ELSE <<>>

\* variant: the IDN alert pushed outside the `if (!isTopSite(domain))` block
computeAlertsCompose_IdnAlways(domain, visited, topSites) ==
    PushIf(~isTopSite(domain, topSites), ALERT_MESSAGES.notTopSite)
    \o PushIf(isIDN(domain), ALERT_MESSAGES.isIDN)
    \o PushIf(~visited, ALERT_MESSAGES.notVisitedBefore)
    \o PushIf(hasManySubdomains(domain), ALERT_MESSAGES.manySubdomains)
    \o PushIf(hasLongSubdomains(domain), ALERT_MESSAGES.longSubdomains)

\* computeAlerts after `await visitedBeforeToday(domain)`: the pushes in order
computeAlertsCompose(domain, visited, topSites) ==
    LET notTop == ~isTopSite(domain, topSites) IN
    PushIf(notTop, ALERT_MESSAGES.notTopSite)
    \o PushIf(notTop /\ isIDN(domain), ALERT_MESSAGES.isIDN)
    \o PushIf(~visited, ALERT_MESSAGES.notVisitedBefore)
    \o PushIf(hasManySubdomains(domain), ALERT_MESSAGES.manySubdomains)
    \o PushIf(hasLongSubdomains(domain), ALERT_MESSAGES.longSubdomains)

\* the Set of fetchRedirectUrls after the loop over the referrer chain:
\* entries from index i on, until the first that is not a client redirect
RECURSIVE fetchRedirectUrlsLoop(_, _, _, _)
\* variant: the current url is collected like any other
RECURSIVE fetchRedirectUrlsLoop_KeepCurrent(_, _, _, _)
fetchRedirectUrlsLoop_KeepCurrent(chain, i, url, redirectUrls) ==
    IF i > Len(chain) THEN redirectUrls
    ELSE IF chain[i].urlType # "CLIENT_REDIRECT" THEN redirectUrls
    ELSE fetchRedirectUrlsLoop_KeepCurrent(chain, i + 1, url,
             (redirectUrls
              \cup {chain[i].referrerUrl}
              \cup {chain[i].serverRedirectChain[j] :
                       j \in 1..Len(chain[i].serverRedirectChain)})
             \ {NoUrl})

\* variant: an entry that is not a client redirect is skipped, not the end
RECURSIVE fetchRedirectUrlsLoop_NoBreak(_, _, _, _)
fetchRedirectUrlsLoop_NoBreak(chain, i, url, redirectUrls) ==
    IF i > Len(chain) THEN redirectUrls
    ELSE IF chain[i].urlType # "CLIENT_REDIRECT"
         THEN fetchRedirectUrlsLoop_NoBreak(chain, i + 1, url, redirectUrls)
    ELSE fetchRedirectUrlsLoop_NoBreak(chain, i + 1, url,
             (redirectUrls
              \cup (IF chain[i].referrerUrl # url THEN {chain[i].referrerUrl} ELSE {})
              \cup {chain[i].serverRedirectChain[j] :
                       j \in {k \in 1..Len(chain[i].serverRedirectChain) :
                                 chain[i].serverRedirectChain[k] # url}})
             \ {NoUrl})

fetchRedirectUrlsLoop(chain, i, url, redirectUrls) ==
    IF i > Len(chain) THEN redirectUrls
    ELSE IF chain[i].urlType # "CLIENT_REDIRECT" THEN redirectUrls
    ELSE LET withReferrer ==
                 IF chain[i].referrerUrl # NoUrl /\ chain[i].referrerUrl # url
                 THEN redirectUrls \cup {chain[i].referrerUrl}
                 ELSE redirectUrls
             withServer ==
                 withReferrer \cup
                 {chain[i].serverRedirectChain[j] :
                     j \in {k \in 1..Len(chain[i].serverRedirectChain) :
                               chain[i].serverRedirectChain[k] # url}}
         IN  fetchRedirectUrlsLoop(chain, i + 1, url, withServer)

\* what the promise of fetchRedirectUrls(url, tabId) resolves with
fetchRedirectUrls(url, api, chain) ==
    IF api.referrerChain THEN fetchRedirectUrlsLoop(chain, 1, url, {}) ELSE {}

(***************************************************************************)
(* Redirect signals.  alerts.js exports neither predicate; alerts_test.js   *)
(* calls both, and they are modelled from the specification.                *)
(***************************************************************************)
URL_SHORTENERS == {Str("goo.gl")}

SUSPICIOUS_TLDS == {Str("stream")}

REDIRECT_MESSAGES ==
    [redirectShortener |-> "Redirects through several URL shorteners",
     redirectSuspiciousTld |-> "Redirects through a suspicious TLD"]

\* variant: every URL of the set on a shortener domain counts
hasMultipleUrlShortenerRedirects_CountUrls(redirectUrls) ==
    \E u, v \in redirectUrls :
        u # v /\ getDomain(u) \in URL_SHORTENERS /\ getDomain(v) \in URL_SHORTENERS

\* a redirect URL without its scheme: 'http://goo.gl/test' and
\* 'https://goo.gl/test' are one redirect (alerts_test.js)
WithoutScheme(u) == [host |-> getDomain(u), path |-> u.path]

hasMultipleUrlShortenerRedirects(redirectUrls) ==
    Cardinality({WithoutScheme(u) :
                    u \in {v \in redirectUrls : getDomain(v) \in URL_SHORTENERS}}) >= 2

redirectsThroughSuspiciousTld(redirectUrls) ==
    \E u \in redirectUrls :
        Split(getDomain(u))[Len(Split(getDomain(u)))] \in SUSPICIOUS_TLDS

(***************************************************************************)
(* The environment of the extension: pages, top sites, history, referrers.  *)
(***************************************************************************)
Rep(c, n) == [i \in 1..n |-> c]

UrlOfHost(scheme, h) == [scheme |-> scheme, host |-> h, path |-> "/"]

\* a label of exactly the suspicious length, and one a character shorter
LongLabel == Rep("a", SUSPICIOUS_SUBDOMAIN_LENGTH)
ShortLabel == Rep("a", SUSPICIOUS_SUBDOMAIN_LENGTH - 1)

GoogleUrl == Url("http", "google.com", "/")
IdnTopUrl == Url("https", "www.xn--a.com", "/")
IdnUrl == Url("http", "xn--b.co.uk", "/")
ManyLongUrl == UrlOfHost("http", LongLabel \o Str(".b.c.d.com"))
FewShortUrl == UrlOfHost("http", ShortLabel \o Str(".b.d.co.uk"))
NoTldUrl == Url("http", "foo.test", "/")
ChromeUrl == Url("chrome", "newtab", "/")

AlertUrls == {GoogleUrl, IdnTopUrl, IdnUrl, ManyLongUrl, FewShortUrl, NoTldUrl}

\* the keys of topsites.json
TopSites == {Str("google.com"), Str("xn--a.com")}

Visit(url, daysAgo) == [url |-> url, daysAgo |-> daysAgo]

Histories ==
    { {},
      {Visit(GoogleUrl, DAYS_YESTERDAY), Visit(IdnUrl, DAYS_THREE_MONTHS + 1)},
      {Visit(ManyLongUrl, DAYS_THREE_MONTHS), Visit(NoTldUrl, DAYS_YESTERDAY - 1)} }

ReferrerEntry(type, ref, server) ==
    [urlType |-> type, referrerUrl |-> ref, serverRedirectChain |-> server]

ShortenerUrlA == Url("http", "goo.gl", "/a")
ShortenerUrlB == Url("https", "goo.gl", "/b")
StreamUrl == Url("https", "test.stream", "/")

ReferrerChains ==
    { <<>>,
      <<ReferrerEntry("CLIENT_REDIRECT", ShortenerUrlA, <<ShortenerUrlB>>),
        ReferrerEntry("LANDING_PAGE", StreamUrl, <<>>)>>,
      <<ReferrerEntry("CLIENT_REDIRECT", StreamUrl, <<>>)>> }

(***************************************************************************)
(* computeAlerts as a process: it suspends at `await visitedBeforeToday`,   *)
(* resumes when the history callback has run, and resolves its promise.     *)
(***************************************************************************)
CallIds == 1..MaxCalls

TabIds == {1, 2}

FreeCall ==
    [pc |-> "free", caller |-> "none", tab |-> [id |-> 0, url |-> NoUrl],
     visited |-> Pending(FALSE), alerts |-> Pending(<<>>)]

\* variant: the promise resolved with the empty newAlerts before the await
computeAlertsStart_NoAwait(caller, tab) ==
    IF chromeApi.history
    THEN [pc |-> "history", caller |-> caller, tab |-> tab,
          visited |-> Pending(FALSE), alerts |-> Resolve(Pending(<<>>), <<>>)]
    ELSE [pc |-> "rejected", caller |-> caller, tab |-> tab,
          visited |-> Rejected(FALSE), alerts |-> Rejected(<<>>)]

\* computeAlerts(url, tabId) up to its await.  Without chrome.history the
\* executor of visitedBeforeToday throws, and the call is rejected.
computeAlertsStart(caller, tab) ==
    IF chromeApi.history
    THEN [pc |-> "history", caller |-> caller, tab |-> tab,
          visited |-> Pending(FALSE), alerts |-> Pending(<<>>)]
    ELSE [pc |-> "rejected", caller |-> caller, tab |-> tab,
          visited |-> Rejected(FALSE), alerts |-> Rejected(<<>>)]

\* the continuations queued as microtasks run before any other event
NoMicrotask == \A c \in CallIds : calls[c].pc \in {"free", "history"}

\* the slot a new invocation takes
FreeSlot(c) ==
    /\ calls[c].pc = "free"
    /\ \A d \in CallIds : calls[d].pc = "free" => c <= d

\* chrome.history.search calls back: visitedBeforeToday settles
HistoryCallback(c) ==
    /\ NoMicrotask
    /\ calls[c].pc = "history"
    /\ calls' = [calls EXCEPT ![c] =
          [@ EXCEPT !.pc = "resume",
                    !.visited = visitedBeforeTodayCallback(
                        @, HistorySearch(history, DAYS_THREE_MONTHS, DAYS_YESTERDAY),
                        ToLowerCase(getDomain(calls[c].tab.url)))]]
    /\ UNCHANGED <<tldVars, evalVars, parseVars, popupVars, topSitesList, topSitesXhr, envVars, bgVars>>

\* newAlerts of computeAlerts for every page, evaluated once per input
newAlertsOf ==
    [domain \in {ToLowerCase(getDomain(u)) : u \in AlertUrls},
     visited \in BOOLEAN, topSites \in {{}, TopSites} |->
        computeAlertsCompose(domain, visited, topSites)]

\* computeAlerts resumes after the await and resolves with newAlerts
ComputeAlertsResume(c) ==
    /\ calls[c].pc = "resume"
    /\ calls' = [calls EXCEPT ![c] =
          [@ EXCEPT !.pc = "resolved",
                    !.alerts = Resolve(@, newAlertsOf[
                        ToLowerCase(getDomain(calls[c].tab.url)),
                        calls[c].visited.value, topSitesList])]]
    /\ UNCHANGED <<tldVars, evalVars, parseVars, popupVars, topSitesList, topSitesXhr, envVars, bgVars>>

\* the rejection of computeAlerts reaches its caller, which has no handler
UnhandledRejection(c) ==
    /\ calls[c].pc = "rejected"
    /\ calls' = [calls EXCEPT ![c] = FreeCall]
    /\ UNCHANGED <<tldVars, evalVars, parseVars, popupVars, topSitesList, topSitesXhr, envVars, bgVars>>

\* setTopSitesList(): fetchTopSites sends the request
SetTopSitesList ==
    /\ NoMicrotask
    /\ topSitesXhr \in {"idle", "failed"}
    /\ topSitesXhr' = "pending"
    /\ UNCHANGED <<tldVars, evalVars, parseVars, popupVars, topSitesList, envVars, calls, bgVars>>

\* xhr.onreadystatechange with readyState 4 and status 200
TopSitesLoaded ==
    /\ NoMicrotask
    /\ topSitesXhr = "pending"
    /\ topSitesXhr' = "done"
    /\ topSitesList' = TopSites
    /\ UNCHANGED <<tldVars, evalVars, parseVars, popupVars, envVars, calls, bgVars>>

\* xhr.onreadystatechange with readyState 4 and another status: no callback
TopSitesFailed ==
    /\ NoMicrotask
    /\ topSitesXhr = "pending"
    /\ topSitesXhr' = "failed"
    /\ UNCHANGED <<tldVars, evalVars, parseVars, popupVars, topSitesList, envVars, calls, bgVars>>

\* a direct caller (the popup, a test) invokes computeAlerts(url, tabId)
CallComputeAlerts(c, url, tabId) ==
    /\ NoMicrotask
    /\ FreeSlot(c)
    /\ calls' = [calls EXCEPT ![c] =
          computeAlertsStart("direct", [id |-> tabId, url |-> url])]
    /\ UNCHANGED <<tldVars, evalVars, parseVars, popupVars, topSitesList, topSitesXhr, envVars, bgVars>>

\* the direct caller's then-callback receives the list
ThenCallback(c) ==
    /\ calls[c].pc = "resolved"
    /\ calls[c].caller = "direct"
    /\ calls' = [calls EXCEPT ![c] = FreeCall]
    /\ UNCHANGED <<tldVars, evalVars, parseVars, popupVars, topSitesList, topSitesXhr, envVars, bgVars>>

(***************************************************************************)
(* background.js: the badge and the flag icon of the browser action.        *)
(***************************************************************************)
\* the pages a tab of the background model shows
BgUrls == {GoogleUrl, IdnUrl, ChromeUrl, NoUrl}

\* the browsing history of the background model
BgHistory == {Visit(GoogleUrl, DAYS_YESTERDAY), Visit(IdnUrl, DAYS_THREE_MONTHS + 1)}

\* what chrome.tabs.onUpdated reports in changeInfo
ChangeKinds == {"url", "status", "title"}

\* alertList.length.toString() for the lengths computeAlerts produces
LengthToString(n) == <<"0", "1", "2", "3", "4", "5">>[n + 1]

\* alertList.includes(message)
Includes(list, message) == \E i \in 1..Len(list) : list[i] = message

\* variant: the gray flag whenever the list includes the not-top-site message
getAlertBadgeDisplay_GrayOnAnyNotTop(alertList) ==
    IF Len(alertList) = 0 THEN [icon |-> "green", badge |-> ""]
    ELSE IF Includes(alertList, ALERT_MESSAGES.notTopSite)
    THEN [icon |-> "gray", badge |-> ""]
    ELSE [icon |-> "orange", badge |-> LengthToString(Len(alertList))]

\* the flag colour and badge text getAlertBadge_ sets for alertList
getAlertBadgeDisplay(alertList) ==
    IF Len(alertList) = 0 THEN [icon |-> "green", badge |-> ""]
    ELSE IF Len(alertList) = 1 /\ Includes(alertList, ALERT_MESSAGES.notTopSite)
    THEN [icon |-> "gray", badge |-> ""]
    ELSE [icon |-> "orange", badge |-> LengthToString(Len(alertList))]

\* !tab.url || !tab.url.startsWith('http')
NotHttp(url) == url = NoUrl \/ ~StartsWith(Str(url.scheme), Str("http"))

\* setBrowserActionAndIcon(tab): disable the action, or enable it and call
\* getAlertBadge_(tab), which runs up to the await inside computeAlerts
setBrowserActionAndIcon(tab) ==
    IF NotHttp(tab.url)
    THEN /\ browserAction' = [browserAction EXCEPT ![tab.id].enabled = "disabled"]
         /\ UNCHANGED calls
    ELSE /\ browserAction' = [browserAction EXCEPT ![tab.id].enabled = "enabled"]
         /\ \E c \in CallIds :
               /\ FreeSlot(c)
               /\ calls' = [calls EXCEPT ![c] = computeAlertsStart("badge", tab)]

\* the callback of chrome.tabs.query({active: true}) in init()
TabsQueryCallback ==
    /\ NoMicrotask
    /\ tabsQuery
    /\ tabsQuery' = FALSE
    /\ setBrowserActionAndIcon([id |-> activeTab, url |-> tabs[activeTab].url])
    /\ UNCHANGED <<tldVars, evalVars, parseVars, popupVars, topSitesList, topSitesXhr, envVars,
                   tabs, activeTab, tabsGet, bgAlerts, tabEvents>>

\* chrome.tabs.onActivated: the listener asks chrome.tabs.get for the tab
TabActivated(t) ==
    /\ NoMicrotask
    /\ tabEvents < MaxEvents
    /\ tabEvents' = tabEvents + 1
    /\ t # activeTab
    /\ activeTab' = t
    /\ tabsGet' = tabsGet \cup {t}
    /\ UNCHANGED <<tldVars, evalVars, parseVars, popupVars, alertVars, tabs, tabsQuery, browserAction, bgAlerts>>

\* the callback of chrome.tabs.get receives the tab as it is now
TabsGetCallback(t) ==
    /\ NoMicrotask
    /\ t \in tabsGet
    /\ tabsGet' = tabsGet \ {t}
    /\ setBrowserActionAndIcon([id |-> t, url |-> tabs[t].url])
    /\ UNCHANGED <<tldVars, evalVars, parseVars, popupVars, topSitesList, topSitesXhr, envVars,
                   tabs, activeTab, tabsQuery, bgAlerts, tabEvents>>

\* chrome.tabs.onUpdated(tabId, changeInfo, tab): the tab loads url (kind
\* "url"), or changes its loading status or its title on the same page
TabUpdated(t, url, kind) ==
    /\ NoMicrotask
    /\ tabEvents < MaxEvents
    /\ tabEvents' = tabEvents + 1
    /\ IF kind = "url" THEN url # tabs[t].url /\ url # NoUrl ELSE url = tabs[t].url
    /\ tabs' = [tabs EXCEPT ![t].url = url]
    /\ IF t = activeTab /\ kind \in {"url", "status"}
       THEN setBrowserActionAndIcon([id |-> t, url |-> url])
       ELSE UNCHANGED <<browserAction, calls>>
    /\ UNCHANGED <<tldVars, evalVars, parseVars, popupVars, topSitesList, topSitesXhr, envVars,
                   activeTab, tabsGet, tabsQuery, bgAlerts>>

\* getAlertBadge_ resumes after `await alerts.computeAlerts(tab.url, tab.id)`
GetAlertBadgeResume(c) ==
    /\ calls[c].pc = "resolved"
    /\ calls[c].caller = "badge"
    /\ bgAlerts' = [defined |-> TRUE, list |-> calls[c].alerts.value]
    /\ browserAction' = [browserAction EXCEPT ![calls[c].tab.id] =
          [enabled |-> @.enabled,
           icon |-> getAlertBadgeDisplay(calls[c].alerts.value).icon,
           badge |-> getAlertBadgeDisplay(calls[c].alerts.value).badge]]
    /\ calls' = [calls EXCEPT ![c] = FreeCall]
    /\ UNCHANGED <<tldVars, evalVars, parseVars, popupVars, topSitesList, topSitesXhr, envVars,
                   tabs, activeTab, tabsGet, tabsQuery, tabEvents>>

\* the variables of the other processes, when they do not run
EvalIdle ==
    /\ evalFn = "none"
    /\ evalArg = <<>>
    /\ evalPc = "ready"
    /\ evalOut = [state |-> "none", value |-> FALSE]
    /\ evalLog = <<>>

PopupIdle ==
    /\ popupPc = "none"
    /\ popupTab = <<>>
    /\ popupFields = <<>>
    /\ document = <<>>
    /\ popupPending = {}
    /\ port = [pc |-> "none"]
    /\ runtimeMessages = <<>>
    /\ xhrs = <<>>
    /\ clicks = 0

ParseIdle ==
    /\ parsePattern = <<>>
    /\ parseIdx = 0
    /\ parseStack = <<>>
    /\ parseTrie = <<>>
    /\ parsePc = "idle"

TldIdle ==
    /\ rules = TheTld
    /\ host = <<>>
    /\ icannOnly = TRUE
    /\ tldPc = "ready"
    /\ tldOut = Returned(<<>>)

NoBrowserAction == [enabled |-> "default", icon |-> "default", badge |-> ""]

BgIdle ==
    /\ tabs = [t \in TabIds |-> [url |-> NoUrl]]
    /\ activeTab = 1
    /\ tabsGet = {}
    /\ tabsQuery = FALSE
    /\ browserAction = [t \in TabIds |-> NoBrowserAction]
    /\ bgAlerts = [defined |-> FALSE, list |-> <<>>]
    /\ tabEvents = 0

AlertsIdle ==
    /\ topSitesList = {}
    /\ topSitesXhr = "idle"
    /\ chromeApi = [history |-> TRUE, referrerChain |-> FALSE]
    /\ history = {}
    /\ referrer = <<>>
    /\ calls = [c \in CallIds |-> FreeCall]

(***************************************************************************)
(* alerts.js under direct callers.                                          *)
(***************************************************************************)
AlertsInit ==
    /\ TldIdle
    /\ EvalIdle
    /\ ParseIdle
    /\ PopupIdle
    /\ BgIdle
    /\ topSitesList = {}
    /\ topSitesXhr = "idle"
    /\ chromeApi \in [history : BOOLEAN, referrerChain : BOOLEAN]
    /\ history \in Histories
    /\ referrer \in ReferrerChains
    /\ calls = [c \in CallIds |-> FreeCall]

AlertsNext ==
    \/ SetTopSitesList
    \/ TopSitesLoaded
    \/ TopSitesFailed
    \/ \E c \in CallIds, url \in AlertUrls : CallComputeAlerts(c, url, activeTab)
    \/ \E c \in CallIds : HistoryCallback(c)
    \/ \E c \in CallIds : ComputeAlertsResume(c)
    \/ \E c \in CallIds : ThenCallback(c)
    \/ \E c \in CallIds : UnhandledRejection(c)

AlertsSpec == AlertsInit /\ [][AlertsNext]_vars

(***************************************************************************)
(* The background page after `new Background().init()`.                     *)
(***************************************************************************)
BgInit ==
    /\ TldIdle
    /\ EvalIdle
    /\ ParseIdle
    /\ PopupIdle
    /\ topSitesList = {}
    /\ topSitesXhr = "pending"
    /\ chromeApi = [history |-> TRUE, referrerChain |-> FALSE]
    /\ history = BgHistory
    /\ referrer = <<>>
    /\ calls = [c \in CallIds |-> FreeCall]
    /\ tabs \in [TabIds -> [url : BgUrls]]
    /\ activeTab \in TabIds
    /\ tabsGet = {}
    /\ tabsQuery = TRUE
    /\ browserAction = [t \in TabIds |-> NoBrowserAction]
    /\ bgAlerts = [defined |-> FALSE, list |-> <<>>]
    /\ tabEvents = 0

BgNext ==
    \/ TabsQueryCallback
    \/ \E t \in TabIds : TabActivated(t)
    \/ \E t \in TabIds : TabsGetCallback(t)
    \/ \E t \in TabIds, url \in BgUrls, kind \in ChangeKinds : TabUpdated(t, url, kind)
    \/ \E c \in CallIds : HistoryCallback(c)
    \/ \E c \in CallIds : ComputeAlertsResume(c)
    \/ \E c \in CallIds : GetAlertBadgeResume(c)
    \/ TopSitesLoaded
    \/ TopSitesFailed

BgSpec == BgInit /\ [][BgNext]_vars

(***************************************************************************)
(* Unit calls of the evaluators of alerts.js: one call with one argument.   *)
(***************************************************************************)
Outcome(state, value) == [state |-> state, value |-> value]

\* the strings isIDN is called with: every short string over the characters
\* its pattern distinguishes, and the strings of alerts_test.js
IdnAlphabet == {"x", "n", "-", DOT, "/"}

IdnStrings == UNION {[1..k -> IdnAlphabet] : k \in 0..MaxIdnLen}

IdnExamples ==
    { Str("not-idn.com"), Str("some-xn--com"), Str("test.some-xn--com"),
      Str("test.com/xn--v8j0cwa6g"), Str("xn--v8j0cwa6g.com/"),
      Str("test.xn--v8j0cwa6g.com/"), Str("xn--v8j0cwa6g.com"),
      Str("test.xn--com") }

CallIsIDN ==
    /\ evalPc = "ready"
    /\ evalFn = "isIDN"
    /\ evalOut' = Outcome("returned", isIDN(evalArg))
    /\ evalPc' = "done"
    /\ UNCHANGED <<evalFn, evalArg, evalLog, tldVars, alertVars, bgVars, parseVars, popupVars>>


\* the hosts the subdomain evaluators are called with: labels joined by dots
RECURSIVE Join(_)
Join(labels) ==
    IF Len(labels) = 1 THEN labels[1]
    ELSE labels[1] \o <<DOT>> \o Join(Tail(labels))

Labels == {Str("a"), Str("com"), Str("co"), Str("uk")}

LabelHosts == {Join(ls) : ls \in UNION {[1..k -> Labels] : k \in 1..MaxLabels}}

ManyExamples ==
    { Str("many.many.many.subdomains.com"), Str("many.many.many.subdomains.co.uk"),
      Str("not-many.subdomains.com"), Str("not-many.subdomains.co.uk") }

\* a call that reaches getTld returns, or throws when getTld throws
ReturnedUnlessTldThrows(domain, value) ==
    IF getTld(TheTld, domain, TRUE).threw THEN Outcome("thrown", FALSE)
    ELSE Outcome("returned", value)

CallHasManySubdomains ==
    /\ evalPc = "ready"
    /\ evalFn = "hasManySubdomains"
    /\ evalOut' = ReturnedUnlessTldThrows(evalArg, hasManySubdomains(evalArg))
    /\ evalPc' = "done"
    /\ UNCHANGED <<evalFn, evalArg, evalLog, tldVars, alertVars, bgVars, parseVars, popupVars>>


LongLabels == {LongLabel, ShortLabel, Str("com"), Str("co"), Str("uk")}

LongLabelHosts ==
    {Join(ls) : ls \in UNION {[1..k -> LongLabels] : k \in 1..MaxLabels}}

LongExamples ==
    { Str("very-very-long-subdomain.example.co.uk"),
      Str("very.com.very-very-long-subdomain.example.com"),
      Str("short-subdomain.example.co.uk") }

CallHasLongSubdomains ==
    /\ evalPc = "ready"
    /\ evalFn = "hasLongSubdomains"
    /\ evalOut' = ReturnedUnlessTldThrows(evalArg, hasLongSubdomains(evalArg))
    /\ evalPc' = "done"
    /\ UNCHANGED <<evalFn, evalArg, evalLog, tldVars, alertVars, bgVars, parseVars, popupVars>>


\* visitedBeforeToday(domain) against a browsing history; the argument is
\* [domain, history, api], api telling whether chrome.history exists
VisitDomains ==
    { Str("visitedtoday.test"), Str("visitedyesterday.test"),
      Str("visitedthreemonthsago.test"), Str("visitedoneyearago.test") }

VisitDays == {0, DAYS_YESTERDAY, DAYS_THREE_MONTHS, DAYS_THREE_MONTHS + 1}

Visits == {Visit(UrlOfHost("http", d), n) : d \in VisitDomains, n \in VisitDays}

UnitHistories == {h \in SUBSET Visits : Cardinality(h) <= MaxVisits}

VisitedArgs ==
    [domain : VisitDomains \cup {<<>>}, history : UnitHistories, api : BOOLEAN]

SearchCall(startDaysAgo, endDaysAgo) ==
    [api |-> "history.search", startDaysAgo |-> startDaysAgo,
     endDaysAgo |-> endDaysAgo]

CallVisitedBeforeToday ==
    /\ evalPc = "ready"
    /\ evalFn = "visitedBeforeToday"
    /\ IF evalArg.api
       THEN /\ evalLog' = Append(evalLog, SearchCall(DAYS_THREE_MONTHS, DAYS_YESTERDAY))
            /\ evalOut' = Pending(FALSE)
            /\ evalPc' = "searching"
       ELSE /\ evalOut' = Rejected(FALSE)
            /\ evalPc' = "done"
            /\ UNCHANGED evalLog
    /\ UNCHANGED <<evalFn, evalArg, tldVars, alertVars, bgVars, parseVars, popupVars>>

VisitedBeforeTodaySearchCallback ==
    /\ evalPc = "searching"
    /\ evalFn = "visitedBeforeToday"
    /\ evalOut' = visitedBeforeTodayCallback(evalOut,
                      HistorySearch(evalArg.history, evalLog[1].startDaysAgo,
                                    evalLog[1].endDaysAgo),
                      evalArg.domain)
    /\ evalPc' = "done"
    /\ UNCHANGED <<evalFn, evalArg, evalLog, tldVars, alertVars, bgVars, parseVars, popupVars>>


\* fetchRedirectUrls(url, tabId) against a referrer chain; the argument is
\* [url, tabId, chain, api], api telling whether
\* chrome.safeBrowsingPrivate.getReferrerChain exists
BareUrl(h) == [scheme |-> "", host |-> Str(h), path |-> ""]

RedirectTestUrl == BareUrl("redirect-test.com")

ChainUrls == {BareUrl("test.com"), BareUrl("url-shortener.test"), RedirectTestUrl}

ServerChains ==
    { <<>>, <<BareUrl("url-shortener.test")>>,
      <<BareUrl("url-shortener.test"), RedirectTestUrl>> }

ChainEntries ==
    { ReferrerEntry(type, ref, server) :
        type \in {"CLIENT_REDIRECT", "LANDING_PAGE"},
        ref \in {NoUrl, BareUrl("test.com"), RedirectTestUrl},
        server \in ServerChains }

UnitChains == UNION {[1..k -> ChainEntries] : k \in 0..MaxChain}

FetchArgs ==
    [url : {RedirectTestUrl}, tabId : {123}, chain : UnitChains, api : BOOLEAN]

ReferrerChainCall(tabId) == [api |-> "getReferrerChain", tabId |-> tabId]

\* variant: the collaborator is called without the feature test
fetchRedirectUrlsStart_NoFeatureCheck(api, tabId) ==
    [log |-> <<[api |-> "getReferrerChain", tabId |-> tabId]>>,
     out |-> Pending({}), pc |-> "waiting"]

\* the feature test and what follows it: the collaborator call and a pending
\* promise, or a promise already resolved with the empty set
fetchRedirectUrlsStart(api, tabId) ==
    IF api
    THEN [log |-> <<ReferrerChainCall(tabId)>>, out |-> Pending({}), pc |-> "waiting"]
    ELSE [log |-> <<>>, out |-> Resolve(Pending({}), {}), pc |-> "done"]

CallFetchRedirectUrls ==
    /\ evalPc = "ready"
    /\ evalFn = "fetchRedirectUrls"
    /\ evalLog' = evalLog \o fetchRedirectUrlsStart(evalArg.api, evalArg.tabId).log
    /\ evalOut' = fetchRedirectUrlsStart(evalArg.api, evalArg.tabId).out
    /\ evalPc' = fetchRedirectUrlsStart(evalArg.api, evalArg.tabId).pc
    /\ UNCHANGED <<evalFn, evalArg, tldVars, alertVars, bgVars, parseVars, popupVars>>

ReferrerChainCallback ==
    /\ evalPc = "waiting"
    /\ evalFn = "fetchRedirectUrls"
    /\ evalOut' = Resolve(evalOut,
                      fetchRedirectUrlsLoop(evalArg.chain, 1, evalArg.url, {}))
    /\ evalPc' = "done"
    /\ UNCHANGED <<evalFn, evalArg, evalLog, tldVars, alertVars, bgVars, parseVars, popupVars>>


\* hasMultipleUrlShortenerRedirects(redirectUrls) on sets of redirect URLs
ShortenerTestUrls ==
    { Url(scheme, "goo.gl", path) :
        scheme \in {"http", "https"}, path \in {"/test", "/redirect-test"} }
    \cup {Url("https", "redirect-test.com", "/"), Url("http", "redirect-test.com", "/test")}

RedirectSets == {S \in SUBSET ShortenerTestUrls : Cardinality(S) <= MaxRedirects}

CallHasMultipleUrlShortenerRedirects ==
    /\ evalPc = "ready"
    /\ evalFn = "hasMultipleUrlShortenerRedirects"
    /\ evalOut' = Outcome("returned", hasMultipleUrlShortenerRedirects(evalArg))
    /\ evalPc' = "done"
    /\ UNCHANGED <<evalFn, evalArg, evalLog, tldVars, alertVars, bgVars, parseVars, popupVars>>


\* Tld.getLongestMatch_(trie, host, icannOnly) on one trie; host is reversed
MatchTries == UNION {[S -> BOOLEAN] : S \in SUBSET RuleKeys}

MatchArgs == [trie : MatchTries, host : Hosts, icannOnly : BOOLEAN]

CallGetLongestMatch ==
    /\ evalPc = "ready"
    /\ evalFn = "getLongestMatch_"
    /\ evalOut' = Outcome("returned",
                      getLongestMatch_(evalArg.trie, evalArg.host, evalArg.icannOnly))
    /\ evalPc' = "done"
    /\ UNCHANGED <<evalFn, evalArg, evalLog, tldVars, alertVars, bgVars, parseVars, popupVars>>

\* getTld(host, true) and then getTld(host, false) on the same Tld instance;
\* the value of the outcome is the sequence of the two results
TldPairArgs == [rules : LayeredRuleSets, host : Hosts]

CallGetTldIcannOnly ==
    /\ evalPc = "ready"
    /\ evalFn = "getTld"
    /\ evalOut' = Outcome("returned", <<getTld(evalArg.rules, evalArg.host, TRUE)>>)
    /\ evalPc' = "second"
    /\ UNCHANGED <<evalFn, evalArg, evalLog, tldVars, alertVars, bgVars, parseVars, popupVars>>

CallGetTldAll ==
    /\ evalPc = "second"
    /\ evalFn = "getTld"
    /\ evalOut' = Outcome("returned",
                      Append(evalOut.value, getTld(evalArg.rules, evalArg.host, FALSE)))
    /\ evalPc' = "done"
    /\ UNCHANGED <<evalFn, evalArg, evalLog, tldVars, alertVars, bgVars, parseVars, popupVars>>

EvalInit ==
    /\ TldIdle
    /\ AlertsIdle
    /\ BgIdle
    /\ ParseIdle
    /\ PopupIdle
    /\ evalPc = "ready"
    /\ evalOut = Outcome("none", FALSE)
    /\ evalLog = <<>>
    /\ \/ evalFn = "isIDN" /\ evalArg \in IdnStrings \cup IdnExamples
       \/ evalFn = "hasManySubdomains" /\ evalArg \in LabelHosts \cup ManyExamples
       \/ evalFn = "hasLongSubdomains" /\ evalArg \in LongLabelHosts \cup LongExamples
       \/ evalFn = "visitedBeforeToday" /\ evalArg \in VisitedArgs
       \/ evalFn = "fetchRedirectUrls" /\ evalArg \in FetchArgs
       \/ evalFn = "hasMultipleUrlShortenerRedirects" /\ evalArg \in RedirectSets
       \/ evalFn = "getLongestMatch_" /\ evalArg \in MatchArgs
       \/ evalFn = "getTld" /\ evalArg \in TldPairArgs

EvalNext ==
    \/ CallIsIDN
    \/ CallHasManySubdomains
    \/ CallHasLongSubdomains
    \/ CallVisitedBeforeToday
    \/ VisitedBeforeTodaySearchCallback
    \/ CallFetchRedirectUrls
    \/ ReferrerChainCallback
    \/ CallHasMultipleUrlShortenerRedirects
    \/ CallGetLongestMatch
    \/ CallGetTldIcannOnly
    \/ CallGetTldAll

EvalSpec == EvalInit /\ [][EvalNext]_vars

(***************************************************************************)
(* Tld.createTrie_ and Tld.doParseTrie_: the decoder of an encoded trie,    *)
(* one step per loop iteration, call and return.  The active calls of       *)
(* doParseTrie_ are the frames of parseStack, the innermost first; idx is   *)
(* passed to a call and returned by it, so one parseIdx serves all frames.  *)
(***************************************************************************)
SpecialChars == {"!", ":", "?", ",", "&"}

LeafChars == {"?", ","}

\* variant: the prefix of every node is stored
IsStored_Always(c) == TRUE

\* c != '&': the prefix belongs to the set of tlds
IsStored(c) == c # "&"

\* c == '!' || c == '?'
TagValue(c) == c = "!" \/ c = "?"

\* goog.structs.Trie.set
TrieSet(t, key, value) ==
    [k \in DOMAIN t \cup {key} |-> IF k = key THEN value ELSE t[k]]

\* variant: createTrie_ without its assertion
WholePatternParsed_Unchecked(i, length) == TRUE

\* the assertion of createTrie_: the whole representation was parsed
WholePatternParsed(i, length) == i = length

Frame(prefix, c, at) == [prefix |-> prefix, c |-> c, at |-> at]

\* a call of doParseTrie_(idx, prefix, pattern, trie): var c = '\0'
NewCall(prefix) == Frame(prefix, "NUL", "scan")

PatternChars == {"a", "b"} \cup SpecialChars

ShortPatterns == UNION {[1..k -> PatternChars] : k \in 0..MaxPattern}

\* longer encodings: siblings, nested interior nodes, private and non-member
\* nodes, a root with an empty label
PatternExamples ==
    { Str("&a?b,?"), Str("a!b:a?b,??"), Str("&ab!b???"), Str("b:a?b!a,?,"),
      Str("&a&a?,b,?") }

\* the examples cut short, with one character dropped, and with one more
Truncated(w) == {SubSeq(w, 1, n) : n \in 0..(Len(w) - 1)}

Dropped(w) == {SubSeq(w, 1, n - 1) \o SubSeq(w, n + 1, Len(w)) : n \in 1..Len(w)}

Extended(w) == {w \o <<c>> : c \in PatternChars}

Patterns ==
    ShortPatterns \cup PatternExamples
    \cup UNION {Truncated(w) \cup Dropped(w) \cup Extended(w) : w \in PatternExamples}

CallCreateTrie ==
    /\ parsePc = "ready"
    /\ parsePc' = "parsing"
    /\ parseStack' = <<NewCall(<<>>)>>
    /\ UNCHANGED <<parsePattern, parseIdx, parseTrie, tldVars, alertVars, bgVars, evalVars, popupVars>>

Scanning ==
    /\ parsePc = "parsing"
    /\ parseStack # <<>>
    /\ parseStack[1].at = "scan"

\* one iteration of the for loop on a character that is not special
ScanLabelChar ==
    /\ Scanning
    /\ parseIdx < Len(parsePattern)
    /\ CharAt(parsePattern, parseIdx) \notin SpecialChars
    /\ parseStack' = <<Frame(parseStack[1].prefix \o <<CharAt(parsePattern, parseIdx)>>,
                             CharAt(parsePattern, parseIdx), "scan")>>
                     \o Tail(parseStack)
    /\ parseIdx' = parseIdx + 1
    /\ UNCHANGED <<parsePattern, parseTrie, parsePc, tldVars, alertVars, bgVars, evalVars, popupVars>>

\* the iteration on a special character: store, break, skip the character,
\* then return from a leaf or call doParseTrie_ for the first subtree
ScanTag ==
    /\ Scanning
    /\ parseIdx < Len(parsePattern)
    /\ CharAt(parsePattern, parseIdx) \in SpecialChars
    /\ parseTrie' = IF IsStored(CharAt(parsePattern, parseIdx))
                    THEN TrieSet(parseTrie, parseStack[1].prefix,
                                 TagValue(CharAt(parsePattern, parseIdx)))
                    ELSE parseTrie
    /\ parseIdx' = parseIdx + 1
    /\ parseStack' = IF CharAt(parsePattern, parseIdx) \in LeafChars
                     THEN Tail(parseStack)
                     ELSE <<NewCall(parseStack[1].prefix),
                            Frame(parseStack[1].prefix,
                                  CharAt(parsePattern, parseIdx), "loop")>>
                          \o Tail(parseStack)
    /\ UNCHANGED <<parsePattern, parsePc, tldVars, alertVars, bgVars, evalVars, popupVars>>

\* the for loop ends at the end of the pattern: the assertion
\* idx < pattern.length fails
ScanPastEnd ==
    /\ Scanning
    /\ parseIdx >= Len(parsePattern)
    /\ parsePc' = "asserted"
    /\ UNCHANGED <<parsePattern, parseIdx, parseStack, parseTrie, tldVars, alertVars, bgVars, evalVars, popupVars>>

\* a subtree has been parsed: c = pattern.charAt(idx), then the next subtree
\* or the return of idx + 1
SubtreeParsed ==
    /\ parsePc = "parsing"
    /\ parseStack # <<>>
    /\ parseStack[1].at = "loop"
    /\ IF parseIdx < Len(parsePattern) /\ CharAt(parsePattern, parseIdx) \in LeafChars
       THEN /\ parseStack' = Tail(parseStack)
            /\ parseIdx' = parseIdx + 1
       ELSE /\ parseStack' = <<NewCall(parseStack[1].prefix)>> \o parseStack
            /\ UNCHANGED parseIdx
    /\ UNCHANGED <<parsePattern, parseTrie, parsePc, tldVars, alertVars, bgVars, evalVars, popupVars>>

\* doParseTrie_ has returned to createTrie_
CreateTrieReturn ==
    /\ parsePc = "parsing"
    /\ parseStack = <<>>
    /\ parsePc' = IF WholePatternParsed(parseIdx, Len(parsePattern))
                  THEN "returned" ELSE "asserted"
    /\ UNCHANGED <<parsePattern, parseIdx, parseStack, parseTrie, tldVars, alertVars, bgVars, evalVars, popupVars>>

ParseInit ==
    /\ TldIdle
    /\ AlertsIdle
    /\ BgIdle
    /\ EvalIdle
    /\ PopupIdle
    /\ parsePattern \in Patterns
    /\ parseIdx = 0
    /\ parseStack = <<>>
    /\ parseTrie = <<>>
    /\ parsePc = "ready"

ParseNext ==
    \/ CallCreateTrie
    \/ ScanLabelChar
    \/ ScanTag
    \/ ScanPastEnd
    \/ SubtreeParsed
    \/ CreateTrieReturn

\* createTrie_ runs to completion: JavaScript does not preempt it
ParseSpec == ParseInit /\ [][ParseNext]_vars /\ WF_vars(ParseNext)

(***************************************************************************)
(* The resolver as a state machine: construct, then call getTld once.       *)
(***************************************************************************)
TldInit ==
    /\ \/ rules \in RuleSets /\ host \in Hosts
       \/ rules \in PslRuleSets /\ host \in PslHosts
       \/ rules \in LayeredRuleSets /\ host \in Hosts
    /\ icannOnly \in BOOLEAN
    /\ tldPc = "ready"
    /\ tldOut = Returned(<<>>)
    /\ AlertsIdle
    /\ BgIdle
    /\ EvalIdle
    /\ ParseIdle
    /\ PopupIdle

CallGetTld ==
    /\ tldPc = "ready"
    /\ tldOut' = getTld(rules, host, icannOnly)
    /\ tldPc' = "done"
    /\ UNCHANGED <<rules, host, icannOnly, alertVars, bgVars, evalVars, parseVars, popupVars>>

TldNext == CallGetTld

TldSpec == TldInit /\ [][TldNext]_vars

(***************************************************************************)
(* Vocabulary of the resolver's properties, stated on the rule set rather   *)
(* than on the resolver's computation.                                      *)
(***************************************************************************)
IsSuffix(s, h) ==
    /\ Len(s) <= Len(h)
    /\ \A i \in 1..Len(s) : s[i] = h[Len(h) - Len(s) + i]

IsPrefix(s, h) ==
    /\ Len(s) <= Len(h)
    /\ \A i \in 1..Len(s) : s[i] = h[i]

\* k matches rh on complete labels: a prefix followed by the end or by '.'
MatchesAtBoundary(k, rh) ==
    /\ IsPrefix(k, rh)
    /\ (Len(k) = Len(rh) \/ rh[Len(k) + 1] = DOT)

\* the admissible keys of a trie that match the reversed host
MatchingKeys(trie, rh, icann) ==
    {k \in DOMAIN trie : MatchesAtBoundary(k, rh) /\ (icann => trie[k])}

Longest(S) ==
    IF S = {} THEN <<>> ELSE CHOOSE k \in S : \A j \in S : Len(k) >= Len(j)

HasDot(s) == \E i \in 1..Len(s) : s[i] = DOT

\* s without its last label: everything before its last '.'
StripLastLabel(s) ==
    LET dots == {i \in 1..Len(s) : s[i] = DOT} IN
    IF dots = {} THEN <<>>
    ELSE SubSeq(s, 1, (CHOOSE i \in dots : \A j \in dots : i >= j) - 1)

\* the label of rh that starts at index from (1-based): up to the next '.'
LabelAt(rh, from) ==
    LET ends == {e \in (from - 1)..Len(rh) :
                    /\ \A i \in from..e : rh[i] # DOT
                    /\ (e = Len(rh) \/ rh[e + 1] = DOT)}
    IN  SubSeq(rh, from, CHOOSE e \in ends : \A f \in ends : e <= f)

CandidateA(r, h, icann) == Longest(MatchingKeys(r.exact, Reverse(h), icann))

ExcludedMatch(r, h, icann) == Longest(MatchingKeys(r.excluded, Reverse(h), icann))

CandidateB(r, h, icann) == StripLastLabel(ExcludedMatch(r, h, icann))

WildcardMatch(r, h, icann) == Longest(MatchingKeys(r.wildcard, Reverse(h), icann))

\* whether the wildcard match is extended by one label
WildcardApplies(r, h, icann) ==
    LET w == WildcardMatch(r, h, icann) IN
    /\ w # <<>>
    /\ Len(h) > Len(w)
    /\ w # CandidateB(r, h, icann)

CandidateC(r, h, icann) ==
    LET w == WildcardMatch(r, h, icann) IN
    IF WildcardApplies(r, h, icann)
    THEN w \o <<DOT>> \o LabelAt(Reverse(h), Len(w) + 2)
    ELSE <<>>

\* a syntactically valid hostname: at least one label, no empty label
ValidHostname(h) ==
    /\ Len(h) > 0
    /\ h[1] # DOT
    /\ h[Len(h)] # DOT
    /\ \A i \in 1..(Len(h) - 1) : ~(h[i] = DOT /\ h[i + 1] = DOT)

TldReturned == tldPc = "done" /\ ~tldOut.threw

(***************************************************************************)
(* Properties of the resolver.                                              *)
(***************************************************************************)

\* C1: whenever getTld(h, false) returns, the returned string is a suffix of
\* h and is not longer than h, for every host and every rule set.
C1_SuffixOfHost ==
    (TldReturned /\ ~icannOnly) =>
        /\ IsSuffix(tldOut.value, host)
        /\ Len(tldOut.value) <= Len(host)

\* a call with icannOnly = false returned a non-empty suffix shorter than the host
C1_Witness ==
    /\ TldReturned /\ ~icannOnly
    /\ Len(tldOut.value) > 0
    /\ Len(tldOut.value) < Len(host)

\* C2: the returned string is, reversed, the longest of the candidates A
\* (longest admissible exact key matching at a label boundary), B (longest
\* admissible excluded match without its last label) and C (longest
\* admissible wildcard match plus the next label of the host, when the host
\* is longer than the match and the match differs from B).
C2_LongestCandidate ==
    TldReturned =>
        Reverse(tldOut.value) =
            Longest({CandidateA(rules, host, icannOnly),
                     CandidateB(rules, host, icannOnly),
                     CandidateC(rules, host, icannOnly)})

\* the wildcard candidate wins over a non-empty exact candidate
C2_Witness ==
    /\ TldReturned
    /\ CandidateA(rules, host, icannOnly) # <<>>
    /\ Len(CandidateC(rules, host, icannOnly)) > Len(CandidateA(rules, host, icannOnly))
    /\ Reverse(tldOut.value) = CandidateC(rules, host, icannOnly)

\* the exact rules include 'com', 'uk' and 'co.uk' as ICANN suffixes
HasPslBase(r) ==
    \A s \in PslBase : s.key \in DOMAIN r.exact /\ r.exact[s.key] = s.icann

\* C3: with 'com', 'uk' and 'co.uk' among the ICANN exact rules,
\* getTld('www.google.com', true) = 'com' and
\* getTld('www.google.co.uk', true) = 'co.uk'.
C3_GoogleExamples ==
    (TldReturned /\ icannOnly /\ HasPslBase(rules)) =>
        /\ (host = Str("www.google.com") => tldOut.value = Str("com"))
        /\ (host = Str("www.google.co.uk") => tldOut.value = Str("co.uk"))

\* getTld('www.google.co.uk', true) returned
C3_Witness ==
    /\ TldReturned /\ icannOnly /\ HasPslBase(rules)
    /\ host = Str("www.google.co.uk")

\* some rule of the rule set decides the result
SomeRuleApplies(r, h, icann) ==
    \/ CandidateA(r, h, icann) # <<>>
    \/ CandidateB(r, h, icann) # <<>>
    \/ WildcardApplies(r, h, icann)

\* s is made of complete labels of h: empty, all of h, or preceded by '.'
WholeLabels(s, h) ==
    \/ s = <<>>
    \/ s = h
    \/ (Len(s) < Len(h) /\ h[Len(h) - Len(s)] = DOT)

C5_NeverThrows == tldPc = "done" => ~tldOut.threw

\* C5 as amended: getTld raises exactly when the longest admissible excluded
\* match of the host has a single label (the assertion of the exclude branch
\* fails), so never when every excluded rule has two labels or more; and when
\* no rule applies it returns the empty string.
C5_ThrowsOnlyOnOneLabelExclude ==
    tldPc = "done" =>
        /\ tldOut.threw <=>
              (/\ ExcludedMatch(rules, host, icannOnly) # <<>>
               /\ ~HasDot(ExcludedMatch(rules, host, icannOnly)))
        /\ ((\A k \in DOMAIN rules.excluded : HasDot(k)) => ~tldOut.threw)
        /\ ((~tldOut.threw /\ ~SomeRuleApplies(rules, host, icannOnly))
               => tldOut.value = <<>>)

\* an excluded rule of two labels matched and getTld returned
C5_Witness ==
    /\ TldReturned
    /\ HasDot(ExcludedMatch(rules, host, icannOnly))

(***************************************************************************)
(* Vocabulary of the alert list's properties.                               *)
(***************************************************************************)
\* the hostnames computeAlerts is called with
AlertDomains == {ToLowerCase(getDomain(u)) : u \in AlertUrls}

\* the hostname a call computes alerts for
DomainOf(c) == ToLowerCase(getDomain(calls[c].tab.url))

\* what each evaluator answers for each hostname and top-site set
predicatesOf ==
    [domain \in AlertDomains, topSites \in {{}, TopSites} |->
        [isTopSite |-> isTopSite(domain, topSites),
         isIDN |-> isIDN(domain),
         hasManySubdomains |-> hasManySubdomains(domain),
         hasLongSubdomains |-> hasLongSubdomains(domain)]]

\* the registrable domain of a hostname: its ICANN suffix preceded by one
\* label; the empty string when the hostname has no suffix or is its suffix
registrableOf ==
    [domain \in AlertDomains |->
        LET tld == TldOf(domain, TRUE) IN
        IF tld = <<>> \/ Len(domain) <= Len(tld) + 1 THEN <<>>
        ELSE Reverse(LabelAt(Reverse(domain), Len(tld) + 2)) \o <<DOT>> \o tld]

\* whether the history holds a visit of the hostname inside the window, or
\* holds no visit at all inside the window
VisitedInWindow(domain) ==
    LET inWindow == {v \in history : v.daysAgo >= DAYS_YESTERDAY
                                     /\ v.daysAgo <= DAYS_THREE_MONTHS}
    IN  inWindow = {} \/ \E v \in inWindow : getDomain(v.url) = domain

Signal(message, on) == [message |-> message, on |-> on]

\* the messages of the signals that are on, in the order of the signals
SelectMessages(signals) ==
    LET on == SelectSeq(signals, LAMBDA e : e.on)
    IN  [i \in 1..Len(on) |-> on[i].message]

\* the five hostname signals in their fixed order, from the evaluators' answers
SignalsFrom(p, visited) ==
    <<Signal(ALERT_MESSAGES.notTopSite, ~p.isTopSite),
      Signal(ALERT_MESSAGES.isIDN, ~p.isTopSite /\ p.isIDN),
      Signal(ALERT_MESSAGES.notVisitedBefore, ~visited),
      Signal(ALERT_MESSAGES.manySubdomains, p.hasManySubdomains),
      Signal(ALERT_MESSAGES.longSubdomains, p.hasLongSubdomains)>>

HostSignals(domain, visited, topSites) ==
    SignalsFrom(predicatesOf[domain, topSites], visited)

\* the two redirect signals, evaluated when a referrer chain is available
RedirectSignals(url) ==
    LET redirectUrls == fetchRedirectUrls(url, chromeApi, referrer) IN
    <<Signal(REDIRECT_MESSAGES.redirectShortener,
             chromeApi.referrerChain
                 /\ hasMultipleUrlShortenerRedirects(redirectUrls)),
      Signal(REDIRECT_MESSAGES.redirectSuspiciousTld,
             chromeApi.referrerChain
                 /\ redirectsThroughSuspiciousTld(redirectUrls))>>

NoDuplicates(list) ==
    \A i, j \in 1..Len(list) : i # j => list[i] # list[j]

Resolved(c) == calls[c].pc = "resolved"

\* no computation, chrome.tabs.get or chrome.tabs.query is in flight
Settled ==
    /\ ~tabsQuery
    /\ tabsGet = {}
    /\ \A c \in CallIds : calls[c].pc = "free"

\* the badges getAlertBadge_ can show for a page: one per state of the
\* top-site list
DisplaysFor(url) ==
    {getAlertBadgeDisplay(SelectMessages(HostSignals(
         ToLowerCase(getDomain(url)),
         VisitedInWindow(ToLowerCase(getDomain(url))), topSites))) :
     topSites \in {{}, TopSites}}

(***************************************************************************)
(* Properties of the alert list and of the badge.                           *)
(***************************************************************************)

\* C6: computeAlerts(url, tabId) resolves with exactly the messages of the
\* alerts whose predicate is true for the lowercased hostname, in the order
\* not-top-site, IDN, not-visited-before, many-subdomains, long-subdomains,
\* redirect-shortener, redirect-suspicious-tld, the two redirect signals
\* being evaluated when a referrer chain is available.
C6_SevenSignalsInOrder ==
    \A c \in CallIds :
        Resolved(c) =>
            calls[c].alerts.value =
                SelectMessages(
                    HostSignals(DomainOf(c), calls[c].visited.value, topSitesList)
                    \o RedirectSignals(calls[c].tab.url))

\* C7: the list computeAlerts resolves with contains no message twice, and
\* does not contain the IDN alert when the registrable domain of the URL is
\* a member of the top-site set, whatever the URL, the top-site set and the
\* history.
C7_NoDuplicateNoIdnOnTopSite ==
    \A c \in CallIds :
        Resolved(c) =>
            /\ NoDuplicates(calls[c].alerts.value)
            /\ (registrableOf[DomainOf(c)] \in topSitesList
                   => ~Includes(calls[c].alerts.value, ALERT_MESSAGES.isIDN))

\* an IDN hostname whose registrable domain is a top site got a non-empty
\* list without the IDN alert
C7_Witness ==
    \E c \in CallIds :
        /\ Resolved(c)
        /\ predicatesOf[DomainOf(c), topSitesList].isIDN
        /\ registrableOf[DomainOf(c)] \in topSitesList
        /\ Len(calls[c].alerts.value) > 0
        /\ ~Includes(calls[c].alerts.value, ALERT_MESSAGES.isIDN)

\* C8: when the history API is missing, the referrer-chain API is missing or
\* the top-site list is not loaded, computeAlerts still resolves with a list,
\* and the evaluator that depends on the missing collaborator contributes no
\* alert to it.
C8_DegradesToNoAlert ==
    \A c \in CallIds :
        /\ calls[c].pc # "rejected"
        /\ Resolved(c) =>
              /\ (~chromeApi.history =>
                     ~Includes(calls[c].alerts.value, ALERT_MESSAGES.notVisitedBefore))
              /\ (topSitesXhr # "done" =>
                     ~Includes(calls[c].alerts.value, ALERT_MESSAGES.notTopSite))
              /\ (~chromeApi.referrerChain =>
                     /\ ~Includes(calls[c].alerts.value,
                                  REDIRECT_MESSAGES.redirectShortener)
                     /\ ~Includes(calls[c].alerts.value,
                                  REDIRECT_MESSAGES.redirectSuspiciousTld))

\* the promise of a call is fulfilled only after the history lookup has
\* settled, and with the list of all five hostname signals
FullyComposed(c) ==
    calls[c].alerts.state = "fulfilled" =>
        /\ calls[c].visited.state = "fulfilled"
        /\ calls[c].visited.value = VisitedInWindow(DomainOf(c))
        /\ calls[c].alerts.value =
               SelectMessages(HostSignals(DomainOf(c), calls[c].visited.value,
                                          topSitesList))

\* a fulfilled promise keeps its list until the call is over, and the list
\* the background page stores is the list of a fulfilled promise
ObservedOnce ==
    /\ \A c \in CallIds :
          calls[c].alerts.state = "fulfilled" =>
              calls'[c].alerts = calls[c].alerts \/ calls'[c] = FreeCall
    /\ bgAlerts' # bgAlerts =>
          \E c \in CallIds :
              /\ calls[c].alerts.state = "fulfilled"
              /\ bgAlerts' = [defined |-> TRUE, list |-> calls[c].alerts.value]

\* C9: a caller of computeAlerts never observes a partial or interim list:
\* the promise resolves once, only after the history lookup and the other
\* evaluations have settled, with the fully composed list.
C9_NoInterimList ==
    /\ [](\A c \in CallIds : FullyComposed(c))
    /\ [][ObservedOnce]_vars

\* the background page's call resolved, after its history lookup, with a list
\* of several alerts
C9_Witness ==
    \E c \in CallIds :
        /\ Resolved(c)
        /\ calls[c].caller = "badge"
        /\ calls[c].visited.state = "fulfilled"
        /\ Len(calls[c].alerts.value) >= 2

\* C10: under any interleaving of tab events and history-lookup completions,
\* once all computations have settled the badge and icon of the active tab
\* are those of the alert list computed for the URL loaded in that tab.
C10_BadgeOfCurrentUrl ==
    (Settled /\ ~NotHttp(tabs[activeTab].url)) =>
        [icon |-> browserAction[activeTab].icon,
         badge |-> browserAction[activeTab].badge]
            \in DisplaysFor(tabs[activeTab].url)

(***************************************************************************)
(* Properties of the evaluators.                                            *)
(***************************************************************************)
EvalDone(fn) == evalFn = fn /\ evalPc = "done"

\* 'xn--' at the start of the string or right after a '.'
XnAtLabelStart(s) ==
    \/ Len(s) >= 4 /\ SubSeq(s, 1, 4) = Str("xn--")
    \/ \E i \in 1..Len(s) :
          s[i] = DOT /\ Len(s) >= i + 4 /\ SubSeq(s, i + 1, i + 4) = Str("xn--")

\* C11: isIDN(domain) is true iff the string starts with 'xn--' or contains
\* 'xn--' immediately after a '.'; 'xn--' elsewhere inside a label or after a
\* '/' gives false.
C11_IdnAtLabelStart ==
    EvalDone("isIDN") =>
        /\ evalOut.value <=> XnAtLabelStart(evalArg)
        /\ evalArg \in {Str("some-xn--com"), Str("test.some-xn--com"),
                        Str("test.com/xn--v8j0cwa6g")} => ~evalOut.value

\* isIDN returned true for a string that has 'xn--' after a '.' only, and
\* false for a string that has 'xn--' after a '/'
C11_Witness ==
    /\ EvalDone("isIDN")
    /\ \/ evalOut.value /\ evalArg[1] = "n"
       \/ ~evalOut.value /\ evalArg = Str("test.com/xn--v8j0cwa6g")

\* the number of labels of the domain outside its resolved ICANN suffix
NonSuffixLabels(domain) ==
    Len(Split(domain))
    - (IF TldOf(domain, TRUE) = <<>> THEN 0 ELSE Len(Split(TldOf(domain, TRUE))))

\* C12: hasManySubdomains(domain) returns true iff the number of labels of
\* the domain, excluding its resolved public suffix (getTld with icannOnly =
\* true), is at least 4.
C12_ManyIffFourNonSuffixLabels ==
    EvalDone("hasManySubdomains") =>
        /\ evalOut.state = "returned"
        /\ evalOut.value <=> NonSuffixLabels(evalArg) >= NUM_SUSPICIOUS_SUBDOMAINS

\* C13: hasLongSubdomains(domain) returns true iff some label of the domain
\* outside its resolved public suffix has at least 22 characters, also when
\* the suffix string occurs earlier in the host.
C13_LongIffLongNonSuffixLabel ==
    EvalDone("hasLongSubdomains") =>
        /\ evalOut.state = "returned"
        /\ evalOut.value <=>
              \E i \in 1..NonSuffixLabels(evalArg) :
                  Len(Split(evalArg)[i]) >= SUSPICIOUS_SUBDOMAIN_LENGTH

\* the visits of the history between 90 days and 1 day before now
WindowVisits(h) == {v \in h : v.daysAgo >= 1 /\ v.daysAgo <= 90}

\* C14: visitedBeforeToday(domain) issues one history search over the window
\* [now - 90 days, now - 1 day] and resolves exactly once: with true when the
\* provider returns no entry at all, otherwise with true iff a returned entry
\* has the hostname domain.
C14_OneSearchOneResolution ==
    /\ [](evalFn = "visitedBeforeToday" /\ evalArg.api =>
            /\ evalPc = "ready" => evalLog = <<>> /\ evalOut.state = "none"
            /\ evalPc # "ready" =>
                  evalLog = <<[api |-> "history.search", startDaysAgo |-> 90,
                               endDaysAgo |-> 1]>>
            /\ evalPc = "searching" => evalOut.state = "pending"
            /\ evalPc = "done" =>
                  /\ evalOut.state = "fulfilled"
                  /\ evalOut.value <=>
                        \/ WindowVisits(evalArg.history) = {}
                        \/ \E v \in WindowVisits(evalArg.history) :
                              v.url.host = evalArg.domain)
    /\ [][evalFn = "visitedBeforeToday" /\ evalOut.state = "fulfilled"
             => evalOut' = evalOut /\ evalLog' = evalLog]_vars

\* the promise is fulfilled with false although the domain is in the history,
\* visited today only, and with true on an empty window for another host
C14_Witness ==
    /\ EvalDone("visitedBeforeToday")
    /\ evalOut.state = "fulfilled"
    /\ \/ /\ ~evalOut.value
          /\ \E v \in evalArg.history : v.url.host = evalArg.domain /\ v.daysAgo = 0
          /\ WindowVisits(evalArg.history) # {}
       \/ /\ evalOut.value
          /\ evalArg.history # {}
          /\ WindowVisits(evalArg.history) = {}
          /\ evalArg.domain = <<>>

\* the entries of the chain before the first one that is not a client redirect
ClientPrefix(chain) ==
    {i \in 1..Len(chain) : \A j \in 1..i : chain[j].urlType = "CLIENT_REDIRECT"}

\* the URLs named by entry e: its referrer and its server redirects
UrlsOfEntry(e) ==
    ({e.referrerUrl} \ {NoUrl})
    \cup {e.serverRedirectChain[j] : j \in 1..Len(e.serverRedirectChain)}

FetchDone == EvalDone("fetchRedirectUrls") /\ evalArg.api

TestChain ==
    << ReferrerEntry("CLIENT_REDIRECT", BareUrl("test.com"),
                     <<BareUrl("url-shortener.test"), BareUrl("redirect-test.com")>>),
       ReferrerEntry("LANDING_PAGE", BareUrl("test.com"), <<>>) >>

FetchTestDone ==
    FetchDone /\ evalArg.url = BareUrl("redirect-test.com") /\ evalArg.chain = TestChain

OnShortener(S) == {u \in S : u.host \in {Str("goo.gl")}}

ThreeShortenerUrls ==
    { Url("http", "goo.gl", "/test"), Url("https", "goo.gl", "/test"),
      Url("https", "goo.gl", "/redirect-test") }

OneShortenerRedirect ==
    { Url("http", "goo.gl", "/test"), Url("https", "goo.gl", "/test"),
      Url("https", "redirect-test.com", "/") }

ShortenerExamples ==
    /\ evalArg = ThreeShortenerUrls => evalOut.value
    /\ evalArg = OneShortenerRedirect => ~evalOut.value

NoParse == [ok |-> FALSE, next |-> 0, nodes |-> {}]

\* the position of the first tag character of p at or after position i, or 0
TagFrom(p, i) ==
    LET tags == {k \in i..Len(p) : p[k] \in SpecialChars} IN
    IF tags = {} THEN 0 ELSE CHOOSE k \in tags : \A j \in tags : k <= j

RECURSIVE EncodedNode(_, _, _)
RECURSIVE EncodedSubtrees(_, _, _)
\* the node written at position i of p under the path prefix: whether there
\* is one, the position after it, and the [path, tag] of it and of the nodes
\* below it
EncodedNode(p, i, prefix) ==
    IF TagFrom(p, i) = 0 THEN NoParse
    ELSE LET k == TagFrom(p, i)
             path == prefix \o SubSeq(p, i, k - 1)
             self == {[path |-> path, tag |-> p[k]]}
         IN  IF p[k] \in {"?", ","}
             THEN [ok |-> TRUE, next |-> k + 1, nodes |-> self]
             ELSE LET below == EncodedSubtrees(p, k + 1, path) IN
                  IF below.ok
                  THEN [ok |-> TRUE, next |-> below.next, nodes |-> self \cup below.nodes]
                  ELSE NoParse

EncodedSubtrees(p, i, prefix) ==
    LET first == EncodedNode(p, i, prefix) IN
    IF ~first.ok THEN NoParse
    ELSE IF first.next <= Len(p) /\ p[first.next] \in {"?", ","}
         THEN [ok |-> TRUE, next |-> first.next + 1, nodes |-> first.nodes]
         ELSE LET rest == EncodedSubtrees(p, first.next, prefix) IN
              IF rest.ok
              THEN [ok |-> TRUE, next |-> rest.next, nodes |-> first.nodes \cup rest.nodes]
              ELSE NoParse

\* p is one node and nothing else
Encodes(p) == EncodedNode(p, 1, <<>>).ok /\ EncodedNode(p, 1, <<>>).next = Len(p) + 1

NodesOf(p) == EncodedNode(p, 1, <<>>).nodes

\* p encodes a trie: one node per path
WellFormed(p) ==
    Encodes(p) /\ \A m, n \in NodesOf(p) : m.path = n.path => m = n

\* truncated, without the tag that ends a node or a list of subtrees, or with
\* characters after the root node
Malformed(p) == ~Encodes(p)

ParseEnded == parsePc \in {"returned", "asserted"}

\* C19: for every well-formed encoded pattern, decoding terminates having
\* consumed the whole pattern, and the keys of the trie are exactly the paths
\* that end at a node tagged '!', ':', '?' or ',', mapped to true for '!' and
\* '?' and to false for ':' and ','; the path of a node tagged '&' is no key.
C19_DecodesTaggedPaths ==
    /\ [](WellFormed(parsePattern) /\ ParseEnded =>
            /\ parsePc = "returned"
            /\ parseIdx = Len(parsePattern)
            /\ DOMAIN parseTrie =
                  {n.path : n \in {m \in NodesOf(parsePattern) : m.tag # "&"}}
            /\ \A n \in NodesOf(parsePattern) :
                  /\ n.tag \in {"!", "?"} => parseTrie[n.path] = TRUE
                  /\ n.tag \in {":", ","} => parseTrie[n.path] = FALSE
                  /\ n.tag = "&" => n.path \notin DOMAIN parseTrie)
    /\ (parsePc = "ready" /\ WellFormed(parsePattern)) ~> (parsePc = "returned")

\* a pattern with a non-member root, a non-member interior node, an ICANN
\* leaf below it and a private leaf beside it has been decoded
C19_Witness ==
    /\ parsePc = "returned"
    /\ parsePattern = Str("&a&a?,b,?")
    /\ parseTrie = [k \in {Str("aa"), Str("b")} |-> k = Str("aa")]

ExamplesCutOrExtended ==
    UNION {Truncated(w) \cup Extended(w) : w \in PatternExamples}

\* C20: decoding a malformed encoded pattern (truncated, missing the tag that
\* terminates a node or a sibling list, or with characters left over after
\* the root node) ends in an assertion failure: it never returns a trie and
\* never loops forever.
C20_MalformedAsserts ==
    /\ [](Malformed(parsePattern) => parsePc # "returned")
    /\ [](parsePattern \in ExamplesCutOrExtended => Malformed(parsePattern))
    /\ (parsePc = "ready" /\ Malformed(parsePattern)) ~> (parsePc = "asserted")

\* the assertion of createTrie_ has failed on an example with one character
\* left over, and the assertion of doParseTrie_ on a truncated example
C20_Witness ==
    /\ parsePc = "asserted"
    /\ \/ parseStack = <<>> /\ parsePattern \in Extended(Str("a!b:a?b,??"))
       \/ parseStack # <<>> /\ parsePattern \in Truncated(Str("a!b:a?b,??"))
                            /\ Len(parsePattern) >= 6

(***************************************************************************)
(* Further properties of the resolver.                                      *)
(***************************************************************************)
\* an excluded key matches the host and the wildcard match is that key
\* without its last label
WildcardCoincidesWithException(r, h, icann) ==
    /\ ExcludedMatch(r, h, icann) # <<>>
    /\ WildcardMatch(r, h, icann) # <<>>
    /\ WildcardMatch(r, h, icann) = CandidateB(r, h, icann)

\* C25 as stated: when the reversed host matches an excluded key and the
\* wildcard match coincides with that key minus its last label, the wildcard
\* candidate is not extended and the returned suffix is the exception rule
\* with one label removed.
C25_ExceptionMinusOneLabel ==
    (TldReturned /\ WildcardCoincidesWithException(rules, host, icannOnly)) =>
        Reverse(tldOut.value) = CandidateB(rules, host, icannOnly)

\* C25 as amended: in that case the wildcard candidate is not extended, and
\* the returned suffix is the exception rule with one label removed unless a
\* longer exact rule matches the host, which is then returned.
C25_ExceptionBeatsWildcard ==
    (TldReturned /\ WildcardCoincidesWithException(rules, host, icannOnly)) =>
        /\ CandidateC(rules, host, icannOnly) = <<>>
        /\ Reverse(tldOut.value) =
              IF Len(CandidateA(rules, host, icannOnly))
                     > Len(CandidateB(rules, host, icannOnly))
              THEN CandidateA(rules, host, icannOnly)
              ELSE CandidateB(rules, host, icannOnly)

\* the host is longer than the exception rule, so the wildcard rule alone
\* would add a label, and the exception rule minus one label is returned
C25_Witness ==
    /\ TldReturned /\ WildcardCoincidesWithException(rules, host, icannOnly)
    /\ Len(host) > Len(ExcludedMatch(rules, host, icannOnly))
    /\ Reverse(tldOut.value) = CandidateB(rules, host, icannOnly)
    /\ CandidateA(rules, host, icannOnly) = <<>>

\* C26: getLongestMatch_ returns the longest trie key that is a prefix of the
\* reversed host and is followed in the host by the end of the string or by
\* '.', among the ICANN-flagged keys only when icannOnly is true, and the
\* empty string when no key qualifies; getTld applies the icannOnly filter in
\* each of its three trie queries.
C26_LongestWholeLabelMatch ==
    /\ EvalDone("getLongestMatch_") =>
          /\ evalOut.value \in
                MatchingKeys(evalArg.trie, evalArg.host, evalArg.icannOnly) \cup {<<>>}
          /\ \A k \in MatchingKeys(evalArg.trie, evalArg.host, evalArg.icannOnly) :
                Len(k) <= Len(evalOut.value)
    /\ (EvalDone("getTld") /\ ~evalOut.value[1].threw) =>
          Reverse(evalOut.value[1].value) =
              Longest({CandidateA(evalArg.rules, evalArg.host, TRUE),
                       CandidateB(evalArg.rules, evalArg.host, TRUE),
                       CandidateC(evalArg.rules, evalArg.host, TRUE)})

\* with icannOnly a longer private key and a key ending inside a label are
\* passed over, and a shorter ICANN key is returned
C26_Witness ==
    /\ EvalDone("getLongestMatch_")
    /\ evalArg.icannOnly
    /\ evalOut.value = <<"a">>
    /\ evalArg.host = <<"a", DOT, "a", "a">>
    /\ DOMAIN evalArg.trie = {<<"a">>, <<"a", DOT, "a">>, <<"a", DOT, "a", "a">>}
    /\ ~evalArg.trie[<<"a", DOT, "a", "a">>]

BothReturned ==
    /\ EvalDone("getTld")
    /\ ~evalOut.value[1].threw
    /\ ~evalOut.value[2].threw

\* a private exception rule matches the host on complete labels
PrivateExceptionMatches(r, h) ==
    \E k \in DOMAIN r.excluded : MatchesAtBoundary(k, Reverse(h)) /\ ~r.excluded[k]

MissingOrNotHttp(url) == url = NoUrl \/ ~IsPrefix(Str("http"), Str(url.scheme))

\* in this step getAlertBadge_ completes for call c
BadgeCompletes(c) ==
    /\ calls[c].pc = "resolved"
    /\ calls[c].caller = "badge"
    /\ calls'[c].pc = "free"

\* in this step getAlertBadge_ is called: call c starts for the background
BadgeStarts(c) == calls[c].pc = "free" /\ calls'[c].caller = "badge"

\* in this step setBrowserActionAndIcon runs for tab t: in the callback of
\* tabs.query or of tabs.get, or when the active tab loads another URL
ActionAndIconSetFor(t) ==
    \/ tabsQuery /\ ~tabsQuery' /\ t = activeTab
    \/ t \in tabsGet /\ t \notin tabsGet'
    \/ t = activeTab /\ tabs'[t].url # tabs[t].url

\* C27: after getAlertBadge_ completes for a tab, the tab's icon and badge
\* depend on the alert list only: green flag and empty badge for the empty
\* list, gray flag and empty badge for the list of the not-top-site message
\* alone, orange flag and the number of alerts as badge for every other list.
\* A tab whose URL is missing or does not start with 'http' has its browser
\* action disabled and no alert computation is started for it.
C27_BadgeFromListOnly ==
    [][/\ \A c \in CallIds :
             BadgeCompletes(c) =>
                 browserAction'[calls[c].tab.id] =
                     [enabled |-> browserAction[calls[c].tab.id].enabled,
                      icon |-> IF calls[c].alerts.value = <<>> THEN "green"
                               ELSE IF calls[c].alerts.value
                                           = <<"Site not in top 5k sites">>
                               THEN "gray" ELSE "orange",
                      badge |-> IF calls[c].alerts.value = <<>>
                                   \/ calls[c].alerts.value
                                          = <<"Site not in top 5k sites">>
                                THEN ""
                                ELSE <<"1", "2", "3", "4", "5">>[Len(calls[c].alerts.value)]]
       /\ \A t \in TabIds :
             (ActionAndIconSetFor(t) /\ MissingOrNotHttp(tabs'[t].url)) =>
                 /\ browserAction'[t].enabled = "disabled"
                 /\ calls' = calls
       /\ \A c \in CallIds :
             BadgeStarts(c) =>
                 /\ ~MissingOrNotHttp(calls'[c].tab.url)
                 /\ browserAction'[calls'[c].tab.id].enabled = "enabled"
      ]_vars

\* one tab shows the orange flag with a count, the other tab is disabled
C27_Witness ==
    \E t, u \in TabIds :
        /\ browserAction[t].icon = "orange"
        /\ browserAction[t].badge = "3"
        /\ browserAction[u].enabled = "disabled"
        /\ browserAction[u].icon = "default"

(***************************************************************************)
(* The popup and the submission of reports: popup.js and the message and   *)
(* report handlers of background.js.                                        *)
(*                                                                          *)
(* JavaScript values that cross a message are tagged with their type.       *)
(***************************************************************************)
Undefined == [type |-> "undefined"]

Null == [type |-> "null"]

True == [type |-> "boolean", value |-> TRUE]

StringValue(s) == [type |-> "string", value |-> s]

ArrayValue(a) == [type |-> "array", value |-> a]

\* the value is truthy: if (v), v ? a : b
Truthy(v) ==
    CASE v.type = "undefined" -> FALSE
      [] v.type = "null" -> FALSE
      [] v.type = "boolean" -> v.value
      [] v.type = "string" -> v.value # <<>>
      [] OTHER -> TRUE

\* String(v)
String(v) ==
    CASE v.type = "undefined" -> Str("undefined")
      [] v.type = "null" -> Str("null")
      [] v.type = "boolean" -> IF v.value THEN Str("true") ELSE Str("false")
      [] v.type = "string" -> v.value
      [] OTHER -> <<>>

\* s.split(c)[i] for i = 0 or 1: Undefined when the array is shorter
SplitAt(s, c, i) ==
    LET first == IndexOf(s, c)
        rest == SubstrFrom(s, first + 1)
        second == IndexOf(rest, c)
    IN  IF i = 0
        THEN StringValue(IF first = -1 THEN s ELSE SubSeq(s, 1, first))
        ELSE IF first = -1 THEN Undefined
        ELSE StringValue(IF second = -1 THEN rest ELSE SubSeq(rest, 1, second))

(***************************************************************************)
(* new URL(url), the username and password setters and toString(), for     *)
(* absolute URLs with an authority.                                         *)
(***************************************************************************)
ParseUrl(url) ==
    LET colon == IndexOf(url, ":")
        afterSlashes == SubstrFrom(url, colon + 3)
        slash == IndexOf(afterSlashes, "/")
        authority == IF slash = -1 THEN afterSlashes
                     ELSE SubSeq(afterSlashes, 1, slash)
        at == LastIndexOf(authority, "@")
        userinfo == IF at = -1 THEN <<>> ELSE SubSeq(authority, 1, at)
        sep == IndexOf(userinfo, ":")
    IN  [protocol |-> SubSeq(url, 1, colon + 1),
         username |-> IF sep = -1 THEN userinfo ELSE SubSeq(userinfo, 1, sep),
         password |-> IF sep = -1 THEN <<>> ELSE SubstrFrom(userinfo, sep + 1),
         host |-> ToLowerCase(SubstrFrom(authority, at + 1)),
         pathname |-> IF slash = -1 THEN <<"/">>
                      ELSE SubstrFrom(afterSlashes, slash)]

UrlToString(parsedUrl) ==
    parsedUrl.protocol \o <<"/", "/">>
      \o (IF parsedUrl.username = <<>> /\ parsedUrl.password = <<>> THEN <<>>
          ELSE parsedUrl.username
                 \o (IF parsedUrl.password = <<>> THEN <<>>
                     ELSE <<":">> \o parsedUrl.password)
                 \o <<"@">>)
      \o parsedUrl.host \o parsedUrl.pathname

\* variant: only the password is removed
removeUserInfo_KeepUsername(url) ==
    UrlToString([ParseUrl(url) EXCEPT !.password = <<>>])

removeUserInfo(url) ==
    UrlToString([ParseUrl(url) EXCEPT !.username = <<>>, !.password = <<>>])

(***************************************************************************)
(* The report built by onMessageReceived_.                                  *)
(***************************************************************************)
\* a field of a protocol buffer message that was never set, or set to v
Unset == [set |-> FALSE]

SetTo(v) == [set |-> TRUE, value |-> v]

Threw(error) == [threw |-> TRUE, error |-> error]

\* atob(s) followed by charCodeAt for each character, for the image data of
\* the model; other strings are not base 64
DecodeBase64(s) ==
    CASE s = StringValue(Str("QQ==")) -> Returned(<<65>>)
      [] s = StringValue(Str("QUI=")) -> Returned(<<65, 66>>)
      [] OTHER -> Threw("InvalidCharacterError")

getIntArrayFromDataUrl(dataUrl) ==
    LET prefix == SplitAt(dataUrl, ",", 0)
        afterColon == SplitAt(prefix.value, ":", 1)
        mimeString == SplitAt(afterColon.value, ";", 0)
    IN  IF afterColon = Undefined THEN Threw("TypeError")
        ELSE IF mimeString.value # Str("image/png")
        THEN Threw("Screenshot is in incorrect format")
        ELSE DecodeBase64(SplitAt(dataUrl, ",", 1))

parseReferrerEntry(entry) ==
    [url |-> entry.url,
     type |-> entry.urlType,
     referrerUrl |-> entry.referrerUrl,
     serverRedirectChain |->
         [i \in 1..Len(entry.serverRedirectChain) |->
             [url |-> entry.serverRedirectChain[i]]]]

\* the report onMessageReceived_ passes to submitReport_ for a request with
\* a truthy 'report', or the error that ends the handler before
BuildReport(request) ==
    LET screenshot ==
            IF Truthy(request.screenshotUrl)
            THEN getIntArrayFromDataUrl(String(request.screenshotUrl))
            ELSE Returned(<<>>)
    IN  IF screenshot.threw THEN screenshot
        ELSE IF Truthy(request.referrer) /\ request.referrer.type # "array"
        THEN Threw("TypeError")
        ELSE Returned(
               [url |-> String(request.url),
                screenshot |-> IF Truthy(request.screenshotUrl)
                               THEN SetTo(screenshot.value) ELSE Unset,
                dom |-> IF Truthy(request.domContent)
                        THEN SetTo(String(request.domContent)) ELSE Unset,
                referrerChain |->
                    IF Truthy(request.referrer)
                    THEN [i \in 1..Len(request.referrer.value) |->
                             parseReferrerEntry(request.referrer.value[i])]
                    ELSE <<>>])

(***************************************************************************)
(* Messages of chrome.runtime and what the browser gives the popup.         *)
(***************************************************************************)
NoFields ==
    [report |-> Undefined, url |-> Undefined, screenshotUrl |-> Undefined,
     domContent |-> Undefined, referrer |-> Undefined,
     success |-> Undefined, error |-> Undefined]

SuccessMessage == [NoFields EXCEPT !.success = True]

ErrorMessage == [NoFields EXCEPT !.error = True]

\* messages sent by a caller other than the popup and the background page:
\* the message of background_test.js and a message with both 'success' and
\* 'error'
OtherMessages ==
    { [NoFields EXCEPT !.report = True],
      [NoFields EXCEPT !.success = True, !.error = True] }

Boxes == {"screenshot", "dom", "referrer"}

UserInfos == {"", "u:p@"}

PopupPaths == {"/@"}

TabUrlString(userInfo, path) ==
    Str("http://") \o Str(userInfo) \o Str("A.io") \o Str(path)

PopupEntry ==
    [urlType |-> "LANDING_PAGE", url |-> BareUrl("test.com"),
     referrerUrl |-> NoUrl, serverRedirectChain |-> <<>>]

\* the current tab: its URL, the results of captureVisibleTab and of the
\* content script, and the referrer chain API
PopupTabs ==
    { tab \in [url : {TabUrlString(u, p) : u \in UserInfos, p \in PopupPaths},
               screenshotUrl : {Undefined,
                                StringValue(Str("data:image/png;base64,QQ=="))},
               domContent : {Undefined, StringValue(Str("<p>"))},
               api : BOOLEAN,
               referrer : {<<>>, <<PopupEntry>>}] :
        tab.api \/ tab.referrer = <<>> }

\* the checkboxes when the popup opens: all checked or all unchecked
InitialBoxes == {[box \in Boxes |-> b] : b \in BOOLEAN}

\* the HTTP status of a finished request
Statuses == {200, 204, 404}

(***************************************************************************)
(* The popup after `new Popup().init()` and the report handlers of the      *)
(* background page after `new Background().init()`.                         *)
(***************************************************************************)
otherVars == <<tldVars, alertVars, bgVars, evalVars, parseVars>>

\* generateErrorBubble_: the checkbox is unchecked and disabled
generateErrorBubble_(doc, box) ==
    [doc EXCEPT ![box] = [checked |-> FALSE, disabled |-> TRUE]]

\* the URLs generateReferrerChainPreview_ collects from the referrer chain
ReferrerUrls(chain) ==
    UNION { {chain[i].url}
              \cup (IF chain[i].referrerUrl # NoUrl
                    THEN {chain[i].referrerUrl} ELSE {})
              \cup {chain[i].serverRedirectChain[j] :
                      j \in 1..Len(chain[i].serverRedirectChain)}
            : i \in 1..Len(chain) }

\* the callback of chrome.tabs.query in Popup.init
PopupTabsQueryCallback ==
    /\ popupPc = "querying"
    /\ popupPc' = "open"
    /\ port' = [pc |-> "posted", url |-> popupTab.url]
    /\ document' =
          LET shown == [document EXCEPT !.urlPreview = removeUserInfo(popupTab.url)]
          IN  IF popupTab.api THEN shown
              ELSE generateErrorBubble_(shown, "referrer")
    /\ popupPending' = {"captureVisibleTab", "executeScript"}
                         \cup (IF popupTab.api THEN {"getReferrerChain"} ELSE {})
    /\ UNCHANGED <<popupTab, popupFields, runtimeMessages, xhrs, clicks, otherVars>>

\* the callback of chrome.tabs.captureVisibleTab
CaptureVisibleTabCallback ==
    /\ "captureVisibleTab" \in popupPending
    /\ popupPending' = popupPending \ {"captureVisibleTab"}
    /\ IF Truthy(popupTab.screenshotUrl)
       THEN /\ popupFields' = [popupFields EXCEPT
                                  !.screenshotUrl_ = popupTab.screenshotUrl]
            /\ UNCHANGED document
       ELSE /\ document' = generateErrorBubble_(document, "screenshot")
            /\ UNCHANGED popupFields
    /\ UNCHANGED <<popupPc, popupTab, port, runtimeMessages, xhrs, clicks, otherVars>>

\* getDomContent_: the callback of chrome.tabs.executeScript sends the
\* 'sendDom' message to the tab
ExecuteScriptCallback ==
    /\ "executeScript" \in popupPending
    /\ popupPending' = (popupPending \ {"executeScript"}) \cup {"sendMessage"}
    /\ UNCHANGED <<popupPc, popupTab, popupFields, document, port,
                   runtimeMessages, xhrs, clicks, otherVars>>

\* retrieveDom_: the response of the content script
DomContentCallback ==
    /\ "sendMessage" \in popupPending
    /\ popupPending' = popupPending \ {"sendMessage"}
    /\ IF Truthy(popupTab.domContent)
       THEN /\ popupFields' = [popupFields EXCEPT
                                  !.domContent_ = popupTab.domContent]
            /\ UNCHANGED document
       ELSE /\ document' = generateErrorBubble_(document, "dom")
            /\ UNCHANGED popupFields
    /\ UNCHANGED <<popupPc, popupTab, port, runtimeMessages, xhrs, clicks, otherVars>>

\* generateReferrerChainPreview_: the callback of getReferrerChain
GetReferrerChainCallback ==
    /\ "getReferrerChain" \in popupPending
    /\ popupPending' = popupPending \ {"getReferrerChain"}
    /\ popupFields' = [popupFields EXCEPT !.referrer_ = ArrayValue(popupTab.referrer)]
    /\ document' = IF ReferrerUrls(popupTab.referrer) # {} THEN document
                   ELSE generateErrorBubble_(document, "referrer")
    /\ UNCHANGED <<popupPc, popupTab, port, runtimeMessages, xhrs, clicks, otherVars>>

\* the user clicks a checkbox that is not disabled
ToggleCheckbox(box) ==
    /\ clicks < MaxClicks
    /\ clicks' = clicks + 1
    /\ ~document[box].disabled
    /\ document' = [document EXCEPT ![box].checked = ~@]
    /\ UNCHANGED <<popupPc, popupTab, popupFields, popupPending, port,
                   runtimeMessages, xhrs, otherVars>>

\* variant: the parts are sent whatever the checkboxes say
ReportMessage_Unchecked(doc, fields) ==
    [NoFields EXCEPT
        !.report = True,
        !.url = StringValue(doc.urlPreview),
        !.screenshotUrl = fields.screenshotUrl_,
        !.domContent = fields.domContent_,
        !.referrer = fields.referrer_]

\* the message sendReport_ sends
ReportMessage(doc, fields) ==
    [NoFields EXCEPT
        !.report = True,
        !.url = StringValue(doc.urlPreview),
        !.screenshotUrl = IF doc.screenshot.checked THEN fields.screenshotUrl_
                          ELSE Undefined,
        !.domContent = IF doc.dom.checked THEN fields.domContent_ ELSE Undefined,
        !.referrer = IF doc.referrer.checked THEN fields.referrer_ ELSE Undefined]

\* the user clicks the report button: sendReport_
ClickReport ==
    /\ clicks < MaxClicks
    /\ clicks' = clicks + 1
    /\ runtimeMessages' = [runtimeMessages EXCEPT
          !.background = Append(@, ReportMessage(document, popupFields))]
    /\ document' = [document EXCEPT !.progress = "block"]
    /\ UNCHANGED <<popupPc, popupTab, popupFields, popupPending, port, xhrs, otherVars>>

\* chrome.runtime.sendMessage(m) by another caller: every listener gets m
OtherSendMessage(m) ==
    /\ clicks < MaxClicks
    /\ clicks' = clicks + 1
    /\ runtimeMessages' = [background |-> Append(runtimeMessages.background, m),
                           popup |-> Append(runtimeMessages.popup, m)]
    /\ UNCHANGED <<popupPc, popupTab, popupFields, document, popupPending, port,
                   xhrs, otherVars>>

\* variant: a report is submitted for every message
onMessageReceived_AnyMessage(request, requests) ==
    IF BuildReport(request).threw THEN requests
    ELSE Append(requests, [data |-> BuildReport(request).value,
                           readyState |-> 1, status |-> 0])

\* onMessageReceived_ and submitReport_ up to xhr.send: the requests after
\* the handler has run
onMessageReceived_(request, requests) ==
    IF Truthy(request.report) /\ ~BuildReport(request).threw
    THEN Append(requests, [data |-> BuildReport(request).value,
                           readyState |-> 1, status |-> 0])
    ELSE requests

\* the listener of chrome.runtime.onMessage of the background page
BackgroundOnMessage ==
    /\ runtimeMessages.background # <<>>
    /\ runtimeMessages' = [runtimeMessages EXCEPT !.background = Tail(@)]
    /\ xhrs' = onMessageReceived_(Head(runtimeMessages.background), xhrs)
    /\ UNCHANGED <<popupPc, popupTab, popupFields, document, popupPending, port,
                   clicks, otherVars>>

\* variant: every status from 200 to 299 is a success
onreadystatechange_Any2xx(xhr) ==
    IF xhr.readyState = 4
    THEN IF xhr.status >= 200 /\ xhr.status < 300
         THEN <<SuccessMessage>> ELSE <<ErrorMessage>>
    ELSE <<>>

\* xhr.onreadystatechange of submitReport_: the messages it sends
onreadystatechange(xhr) ==
    IF xhr.readyState = 4
    THEN IF xhr.status = 200 THEN <<SuccessMessage>> ELSE <<ErrorMessage>>
    ELSE <<>>

\* request i receives its headers (readyState 2) or is done (readyState 4)
\* with a status
XhrReadyStateChange(i, readyState, status) ==
    /\ i \in 1..Len(xhrs)
    /\ xhrs[i].readyState < readyState
    /\ (readyState < 4) => (status = 0)
    /\ xhrs' = [xhrs EXCEPT ![i].readyState = readyState, ![i].status = status]
    /\ runtimeMessages' = [runtimeMessages EXCEPT
          !.popup = @ \o onreadystatechange(xhrs'[i])]
    /\ UNCHANGED <<popupPc, popupTab, popupFields, document, popupPending, port,
                   clicks, otherVars>>

\* variant: the error view is shown whenever 'error' is truthy
PopupListener_NoElse(request, doc) ==
    [doc EXCEPT !.main = "none",
                !.confirmation = IF Truthy(request.success) THEN "block" ELSE @,
                !.error = IF Truthy(request.error) THEN "block" ELSE @]

\* the listener of chrome.runtime.onMessage of the popup: the document after
PopupListener(request, doc) ==
    [doc EXCEPT !.main = "none",
                !.confirmation = IF Truthy(request.success) THEN "block" ELSE @,
                !.error = IF ~Truthy(request.success) /\ Truthy(request.error)
                          THEN "block" ELSE @]

PopupOnMessage ==
    /\ runtimeMessages.popup # <<>>
    /\ runtimeMessages' = [runtimeMessages EXCEPT !.popup = Tail(@)]
    /\ document' = PopupListener(Head(runtimeMessages.popup), document)
    /\ UNCHANGED <<popupPc, popupTab, popupFields, popupPending, port, xhrs,
                   clicks, otherVars>>

ReportInit ==
    /\ TldIdle
    /\ AlertsIdle
    /\ BgIdle
    /\ EvalIdle
    /\ ParseIdle
    /\ popupPc = "querying"
    /\ popupTab \in PopupTabs
    /\ popupFields = [screenshotUrl_ |-> Null, domContent_ |-> Null,
                      referrer_ |-> ArrayValue(<<>>)]
    /\ \E checked \in InitialBoxes :
          document = [main |-> "block", confirmation |-> "", error |-> "",
                      progress |-> "none", urlPreview |-> <<>>,
                      screenshot |-> [checked |-> checked["screenshot"], disabled |-> FALSE],
                      dom |-> [checked |-> checked["dom"], disabled |-> FALSE],
                      referrer |-> [checked |-> checked["referrer"], disabled |-> FALSE]]
    /\ popupPending = {}
    /\ port = [pc |-> "none"]
    /\ runtimeMessages = [background |-> <<>>, popup |-> <<>>]
    /\ xhrs = <<>>
    /\ clicks = 0

ReportNext ==
    \/ PopupTabsQueryCallback
    \/ CaptureVisibleTabCallback
    \/ ExecuteScriptCallback
    \/ DomContentCallback
    \/ GetReferrerChainCallback
    \/ \E box \in Boxes : ToggleCheckbox(box)
    \/ ClickReport
    \/ \E m \in OtherMessages : OtherSendMessage(m)
    \/ BackgroundOnMessage
    \/ \E i \in 1..MaxClicks, readyState \in {2, 4}, status \in Statuses :
          XhrReadyStateChange(i, readyState, status)
    \/ PopupOnMessage

ReportSpec == ReportInit /\ [][ReportNext]_vars

(***************************************************************************)
(* Properties of the submission of reports.                                 *)
(***************************************************************************)
\* in this step request i completes
Completes(i) ==
    /\ i \in 1..Len(xhrs)
    /\ xhrs[i].readyState # 4
    /\ xhrs'[i].readyState = 4

\* in this step the background page sends the messages sent to the popup
BackgroundSends(sent) ==
    runtimeMessages'.popup = runtimeMessages.popup \o sent

\* C21 as stated: when a submission completes the background page sends the
\* success message for every status from 200 to 299 and the error message
\* for every other status, one message per completed submission.
C21_SuccessOnAny2xx ==
    [][\A i \in 1..MaxClicks :
          Completes(i) =>
              BackgroundSends(IF xhrs'[i].status \in 200..299
                              THEN <<SuccessMessage>> ELSE <<ErrorMessage>>)
      ]_vars

\* C21 amended: when a submission completes the background page sends the
\* success message for status 200 and the error message for every other
\* status, exactly one of the two per completed submission, and it sends
\* neither in a step of a request that does not complete it.
C21_SuccessOn200Only ==
    [][/\ \A i \in 1..MaxClicks :
             Completes(i) =>
                 BackgroundSends(IF xhrs'[i].status = 200
                                 THEN <<SuccessMessage>> ELSE <<ErrorMessage>>)
       /\ (xhrs' # xhrs /\ \A i \in 1..MaxClicks : ~Completes(i)) =>
             BackgroundSends(<<>>)
      ]_vars

\* a submission completed with status 204 and the error message is on its
\* way to the popup
C21_Witness ==
    \E i \in 1..Len(xhrs) :
        /\ xhrs[i].readyState = 4
        /\ xhrs[i].status = 204
        /\ runtimeMessages.popup # <<>>
        /\ runtimeMessages.popup[Len(runtimeMessages.popup)] = ErrorMessage

\* in this step the background page receives the first message sent to it
BackgroundReceives ==
    /\ runtimeMessages.background # <<>>
    /\ runtimeMessages'.background = Tail(runtimeMessages.background)

\* data is a report built from request: its URL is the text of 'url', and it
\* has a screenshot, a DOM and referrer chain entries exactly when the
\* message has them
BuiltFrom(data, request) ==
    /\ data.url = (IF request.url = Undefined THEN Str("undefined")
                   ELSE request.url.value)
    /\ data.screenshot.set
         <=> (request.screenshotUrl.type = "string" /\ request.screenshotUrl.value # <<>>)
    /\ data.dom.set
         <=> (request.domContent.type = "string" /\ request.domContent.value # <<>>)
    /\ data.dom.set => data.dom.value = request.domContent.value
    /\ Len(data.referrerChain)
         = (IF request.referrer.type = "array" THEN Len(request.referrer.value) ELSE 0)

\* C22: every runtime message received with a truthy 'report' makes one call
\* of submitReport_ with a report built from the message, also when the
\* message has no screenshot, DOM or referrer chain; a message without a
\* truthy 'report' makes none, and no other step submits a report.
C22_OneSubmissionPerReportMessage ==
    [][/\ BackgroundReceives =>
             IF Head(runtimeMessages.background).report = True
             THEN /\ Len(xhrs') = Len(xhrs) + 1
                  /\ SubSeq(xhrs', 1, Len(xhrs)) = xhrs
                  /\ xhrs'[Len(xhrs')].readyState = 1
                  /\ BuiltFrom(xhrs'[Len(xhrs')].data,
                               Head(runtimeMessages.background))
             ELSE xhrs' = xhrs
       /\ ~BackgroundReceives => Len(xhrs') = Len(xhrs)
      ]_vars

\* the message {'report': true} was received and a report without
\* screenshot, DOM and referrer chain was submitted
C22_Witness ==
    /\ runtimeMessages.background = <<>>
    /\ Len(xhrs) = 1
    /\ xhrs[1].data.url = Str("undefined")
    /\ ~xhrs[1].data.screenshot.set
    /\ ~xhrs[1].data.dom.set
    /\ xhrs[1].data.referrerChain = <<>>

(***************************************************************************)
(* Properties of the popup.                                                 *)
(***************************************************************************)
\* in this step the popup receives the first message sent to it
PopupReceives ==
    /\ runtimeMessages.popup # <<>>
    /\ runtimeMessages'.popup = Tail(runtimeMessages.popup)

\* in this step the view becomes visible
MadeVisible(view) == document[view] # "block" /\ document'[view] = "block"

\* C23: a runtime message with 'success' hides the main view and shows the
\* confirmation view, a message with 'error' (and no 'success') hides the
\* main view and shows the error view, and no message makes both the
\* confirmation view and the error view visible.
C23_SuccessOrErrorView ==
    [][PopupReceives =>
          /\ Head(runtimeMessages.popup).success = True =>
                /\ document'.main = "none"
                /\ document'.confirmation = "block"
          /\ (Head(runtimeMessages.popup).error = True
                /\ Head(runtimeMessages.popup).success # True) =>
                /\ document'.main = "none"
                /\ document'.error = "block"
          /\ ~(MadeVisible("confirmation") /\ MadeVisible("error"))
      ]_vars

\* the error message was received: the error view is shown instead of the
\* main view, the confirmation view is not
C23_Witness ==
    /\ document.main = "none"
    /\ document.error = "block"
    /\ document.confirmation # "block"
    /\ \E i \in 1..Len(xhrs) : xhrs[i].readyState = 4 /\ xhrs[i].status = 404
    /\ runtimeMessages.popup = <<>>

\* the tab URL with the given path and without credentials, as the URL
\* parser writes it
WithoutCredentials(path) == Str("http://a.io") \o Str(path)

\* in this step the report button is clicked
ReportClicked ==
    /\ Len(runtimeMessages'.background) = Len(runtimeMessages.background) + 1
    /\ runtimeMessages'.popup = runtimeMessages.popup

\* the message sent in this step
SentMessage == runtimeMessages'.background[Len(runtimeMessages'.background)]

\* C24: the URL preview shows the tab URL without its credentials, so tab
\* URLs that differ only in their username and password have the same
\* preview, and the 'url' of the report message is the text of the preview.
C24_NoCredentialsShownOrReported ==
    /\ [](\A userInfo \in UserInfos, path \in PopupPaths :
             (popupPc = "open" /\ popupTab.url = TabUrlString(userInfo, path))
                 => document.urlPreview = WithoutCredentials(path))
    /\ [][ReportClicked => SentMessage.url = StringValue(document.urlPreview)]_vars

\* the tab URL has a username and a password, and the report message on its
\* way to the background page has the URL without them
C24_Witness ==
    /\ popupTab.url = Str("http://u:p@A.io/@")
    /\ document.urlPreview = Str("http://a.io/@")
    /\ runtimeMessages.background # <<>>
    /\ runtimeMessages.background[1].url = StringValue(Str("http://a.io/@"))

\* the message field and the report field of each optional part
MessageField(box) ==
    CASE box = "screenshot" -> "screenshotUrl"
      [] box = "dom" -> "domContent"
      [] box = "referrer" -> "referrer"

\* the report has the part
Carries(data, box) ==
    CASE box = "screenshot" -> data.screenshot.set
      [] box = "dom" -> data.dom.set
      [] box = "referrer" -> data.referrerChain # <<>>

\* in this step the browser answers that the part cannot be had
FailsIn(box) ==
    CASE box = "screenshot" ->
             /\ "captureVisibleTab" \in popupPending
             /\ "captureVisibleTab" \notin popupPending'
             /\ popupTab.screenshotUrl = Undefined
      [] box = "dom" ->
             /\ "sendMessage" \in popupPending
             /\ "sendMessage" \notin popupPending'
             /\ popupTab.domContent = Undefined
      [] box = "referrer" ->
             \/ popupPc = "querying" /\ popupPc' = "open" /\ ~popupTab.api
             \/ /\ "getReferrerChain" \in popupPending
                /\ "getReferrerChain" \notin popupPending'
                /\ popupTab.referrer = <<>>

\* C28: the report message carries a screenshot, DOM content or referrer
\* chain only when its checkbox is checked when the report button is
\* clicked; when getting a part fails its checkbox is unchecked and
\* disabled and stays so, so that the part is in no later report; and the
\* background page adds to the submitted report only the parts present in
\* the message.
C28_PartsOnlyWhenChecked ==
    [][\A box \in Boxes :
          /\ (ReportClicked /\ SentMessage[MessageField(box)] # Undefined)
                => document[box].checked
          /\ FailsIn(box)
                => document'[box] = [checked |-> FALSE, disabled |-> TRUE]
          /\ document[box].disabled
                => /\ document'[box] = [checked |-> FALSE, disabled |-> TRUE]
                   /\ ReportClicked => SentMessage[MessageField(box)] = Undefined
          /\ (BackgroundReceives /\ Len(xhrs') > Len(xhrs)
                /\ Carries(xhrs'[Len(xhrs')].data, box))
                => Truthy(Head(runtimeMessages.background)[MessageField(box)])
      ]_vars

\* the screenshot could not be captured and its checkbox is disabled; the
\* report submitted afterwards has the DOM and the referrer chain, whose
\* checkboxes are checked, and no screenshot
C28_Witness ==
    /\ document.screenshot = [checked |-> FALSE, disabled |-> TRUE]
    /\ document.dom.checked
    /\ document.referrer.checked
    /\ Len(xhrs) = 1
    /\ ~xhrs[1].data.screenshot.set
    /\ xhrs[1].data.dom.set
    /\ xhrs[1].data.referrerChain # <<>>

(***************************************************************************)
(* The 'Site info' port: the popup opened on the active tab asks the        *)
(* background page for the alert list.                                      *)
(***************************************************************************)
\* the user opens the popup on the active tab: the callback of
\* chrome.tabs.query in Popup.init calls populateAlerts_(currentTab.url),
\* which connects and posts {siteInfo: true}
PopupOpens ==
    /\ NoMicrotask
    /\ port.pc = "none"
    /\ browserAction[activeTab].enabled # "disabled"
    /\ ~NotHttp(tabs[activeTab].url)
    /\ port' = [pc |-> "posted", url |-> tabs[activeTab].url]
    /\ UNCHANGED <<popupPc, popupTab, popupFields, document, popupPending,
                   runtimeMessages, xhrs, clicks, otherVars>>

\* the reply of the background page: {siteInfo: this.alerts}
PortReply(alertList) == alertList

\* the port.onMessage listener of the background page
BackgroundPortMessage ==
    /\ NoMicrotask
    /\ port.pc = "posted"
    /\ port' = [pc |-> "replied", url |-> port.url, siteInfo |-> PortReply(bgAlerts)]
    /\ UNCHANGED <<popupPc, popupTab, popupFields, document, popupPending,
                   runtimeMessages, xhrs, clicks, otherVars>>

\* the port.onMessage listener of the popup: it shows the list of the reply,
\* or calls setTopSitesList and computeAlerts(url) when the reply has none
\* (the call itself is CallComputeAlerts, in the page of the popup)
PopupPortMessage ==
    /\ port.pc = "replied"
    /\ port' = IF port.siteInfo.defined
               THEN [pc |-> "shown", url |-> port.url, alerts |-> port.siteInfo.list]
               ELSE [pc |-> "computing", url |-> port.url]
    /\ UNCHANGED <<popupPc, popupTab, popupFields, document, popupPending,
                   runtimeMessages, xhrs, clicks, otherVars>>

\* the background page has started with two pages open in two tabs
PortInit ==
    /\ BgInit
    /\ tabs = [t \in TabIds |-> [url |-> IF t = 1 THEN GoogleUrl ELSE IdnUrl]]

PortNext ==
    \/ BgNext
    \/ PopupOpens
    \/ BackgroundPortMessage
    \/ PopupPortMessage

PortSpec == PortInit /\ [][PortNext]_vars

\* the lists computeAlerts can resolve with for a page: one per state of the
\* top-site list
ListsFor(url) ==
    {SelectMessages(HostSignals(
         ToLowerCase(getDomain(url)),
         VisitedInWindow(ToLowerCase(getDomain(url))), topSites)) :
     topSites \in {{}, TopSites}}

\* C29: under any interleaving of tab activations, tab updates and pending
\* alert computations, the list the background page sends in reply to the
\* port message is a list computed for the URL of the tab the popup was
\* opened on; when no list has been computed the reply has none and the
\* popup calls computeAlerts for its own URL.
C29_ReplyIsListOfPopupTab ==
    [][/\ (port.pc = "posted" /\ port'.pc = "replied") =>
             IF bgAlerts.defined
             THEN /\ port'.siteInfo.defined
                  /\ port'.siteInfo.list \in ListsFor(port.url)
             ELSE ~port'.siteInfo.defined
       /\ (port.pc = "replied" /\ ~port.siteInfo.defined) =>
             (port' = port \/ port' = [pc |-> "computing", url |-> port.url])
      ]_vars

====
